---------------------------- MODULE Spec2Model ----------------------------
(***************************************************************************)
(* The SSL certificate lifecycle tracker of dev-manager: the SQLite tables *)
(* certificates and renewal_logs, the certificate files on disk, and the   *)
(* operations of SSLManager, in both copies the repository holds           *)
(* (src/ssl_manager.py, "root", and src/cli/ssl_manager.py, "cli").        *)
(* The other programs of the repository follow, each with a specification  *)
(* of its own in which the SSL manager does not run: the server setup      *)
(* (src/server/setup.py, SetupSpec), the template rendering of             *)
(* WordPressManager and TemplateManager (TmplSpec), the resolution of     *)
(* tool versions for a new project (VerSpec), the hot reload handler and  *)
(* run_build of src/build_system.py (HotSpec, BuildSpec), the setup tasks  *)
(* ssh.run and security.run (TaskSpec), the YAML configuration of          *)
(* VersionManager and SSLManager (CfgSpec).  ConcSpec has two managers     *)
(* at work on the same SQLite file, one SQL statement a step.              *)
(*                                                                         *)
(* One step of the model is one database transaction, one external         *)
(* command or one iteration of a loop of the code.  In Spec the database   *)
(* file stays available (a transaction always commits); DbSpec lets it     *)
(* become unavailable, and every sqlite3 call then raises.                 *)
(***************************************************************************)
EXTENDS Naturals, Sequences, FiniteSets, TLC

VARIABLES
    variant,        \* which copy of ssl_manager.py runs: "root" or "cli"
    db_ok,          \* the SQLite file can be opened and written
    certificates,   \* table certificates: a set of rows
    renewal_logs,   \* table renewal_logs: a sequence of rows, in id order
    nextId,         \* the next AUTOINCREMENT id of certificates
    acme,           \* domains with a certificate (main or SAN) in Traefik's acme.json
    le_live,        \* domains with /etc/letsencrypt/live/<domain>/fullchain.pem
    ss_dir,         \* domains with a directory ~/.ssl-manager/self-signed/<domain>
    ss_cert,        \* domains with certificate.crt in that directory
    pc,             \* where the manager is
    call,           \* the running call: its operation, domain and type
    attempt,        \* _generate_traefik_certificate: checks made that failed
    slept,          \* _generate_traefik_certificate: seconds slept in the loop
    todo,           \* rows a loop (renewal, status check) still has to handle
    results,        \* renew_certificates: the map built so far
    ret,            \* the value the last call returned
    \* ServerSetup (src/server/setup.py)
    setup_pc,       \* where ServerSetup.run is
    euid,           \* os.geteuid()
    answers,        \* ConfigCollector.collect: its local config
    proceed,        \* the answer to 'Proceed with setup?'
    config,         \* ServerSetup.config
    tasks_run,      \* names of the tasks _run_setup_tasks has invoked, in order
    setup_log,      \* ServerSetup.setup_log
    exit_code,      \* <<>> while the program runs, <<n>> after exit(n)
    \* _copy_template_files (src/wordpress_manager.py, src/template_manager.py)
    tmpl_pc,        \* where _copy_template_files is with the file
    tmpl_kind,      \* whose _copy_template_files runs, and on what kind of file
    template_content, \* the text of the template
    variables,      \* the variables map, as its items() in insertion order
    var_i,          \* items of the map the substitution loop has handled
    content,        \* the loop's working text
    written,        \* what was written to the target file
    \* version resolution (src/cli.py new, TemplateManager._resolve_versions)
    ver_pc,         \* where the command 'new' is
    versions,       \* the --versions option: its comma-separated specs
    tech_stack,     \* template_config['tech_stack']
    tools,          \* VersionManager.config['tools']: tool -> default
    version_specs,  \* the dict cli.new builds
    spec_i,         \* specs of the option handled
    tech_i,         \* entries of the tech stack handled
    resolved,       \* _resolve_versions: the dict resolved
    \* two managers on one SQLite file
    conns,          \* per manager: the connection it has open and what it runs
    wlock,          \* the manager holding SQLite's write lock, 0 when free
    work,           \* the lock holder's uncommitted tables
    \* HotReloadHandler (src/build_system.py)
    hot_config,     \* HotReloadHandler.config
    last_reload,    \* HotReloadHandler.last_reload
    clock,          \* time.time(), in seconds
    reloads,        \* the times at which a reload command was run
    handled,        \* the last event on_modified handled, when, and what came of it
    \* programs that run commands in order: BuildSystem.run_build, tasks/ssh.py, tasks/security.py
    run_prog,       \* the function that runs
    run_config,     \* its configuration, and for run_build its target
    run_i,          \* the number of its steps that have completed
    executed,       \* what it ran or wrote, in order, each with its outcome
    run_ret,        \* "running", then what the function returned, or "raised"
    \* configuration kept in YAML: VersionManager (versions.yml), SSLManager (config.yml)
    cfg_prog,       \* whose configuration it is
    mem_config,     \* self.config
    yaml_file,      \* the text of the YAML file, key by key
    cfg_last        \* the last menu action or call, and its arguments

sslVars == <<variant, db_ok, certificates, renewal_logs, nextId, acme, le_live,
             ss_dir, ss_cert, pc, call, attempt, slept, todo, results, ret>>
setupVars == <<setup_pc, euid, answers, proceed, config, tasks_run, setup_log,
               exit_code>>

tmplVars == <<tmpl_pc, tmpl_kind, template_content, variables, var_i, content,
              written>>

verVars == <<ver_pc, versions, tech_stack, tools, version_specs, spec_i, tech_i,
             resolved>>

concVars == <<conns, wlock, work>>

hotVars == <<hot_config, last_reload, clock, reloads, handled>>

taskVars == <<run_prog, run_config, run_i, executed, run_ret>>

cfgVars == <<cfg_prog, mem_config, yaml_file, cfg_last>>

vars == <<sslVars, setupVars, tmplVars, verVars, concVars,
         hotVars,
         taskVars,
         cfgVars>>

dbVars == <<certificates, renewal_logs, nextId>>
fsVars == <<acme, le_live, ss_dir, ss_cert>>
ctlVars == <<pc, call, attempt, slept, todo, results, ret>>
\* for each program, the variables of the other programs
notSsl == <<setupVars, tmplVars, verVars, concVars, hotVars, taskVars, cfgVars>>
notSetup == <<sslVars, tmplVars, verVars, concVars, hotVars, taskVars, cfgVars>>
notTmpl == <<sslVars, setupVars, verVars, concVars, hotVars, taskVars, cfgVars>>
notVer == <<sslVars, setupVars, tmplVars, concVars, hotVars, taskVars, cfgVars>>
notHot == <<sslVars, setupVars, tmplVars, verVars, concVars, taskVars, cfgVars>>
notTask == <<sslVars, setupVars, tmplVars, verVars, concVars, hotVars, cfgVars>>
notCfg == <<sslVars, setupVars, tmplVars, verVars, concVars, hotVars, taskVars>>
outside == <<variant, db_ok, notSsl>>

----------------------------------------------------------------------------
(* Bounds of the model. *)

\* certificates rows ever inserted (the AUTOINCREMENT counter stops here)
MaxId == 2
\* renewal_logs rows ever inserted
MaxLog == 2
\* pieces a template text is made of
MaxPieces == 3
\* entries of a template's tech stack
MaxStack == 2
\* specs in a --versions option
MaxSpecs == 2

(* Values of the program. *)

Domains == {"a.test", "b.test"}
\* ORDER BY domain
DomainOrder == <<"a.test", "b.test">>
CertTypes == {"letsencrypt", "self-signed"}
NULL == "NULL"
\* a date column: <<>> is SQL NULL (Python None), <<n>> the date n days from now
NoDate == <<>>
NoCall == [op |-> "none"]
NoRet == [call |-> "none"]
\* a loop that runs once more
one_more_attempt == 30 + 1

\* for attempt in range(max_attempts)
max_attempts == 30
\* time.sleep(10)
sleep_seconds == 10
\* config['notifications']['renewal_days_before']
renewal_days_before == 30
\* what _get_certificate_expiry can report: None, or the notAfter date
ExpiryDates == {NoDate, <<10>>, <<90>>}
\* config['self_signed']['validity_days'], the expiry the cli copy stores
validity_days == 365

----------------------------------------------------------------------------
(* The tables. *)

RowsOf(tbl, d) == {r \in tbl : r.domain = d}

NewRow(nid, d, t) ==
    [id |-> nid, domain |-> d, type |-> t, status |-> "pending",
     expiry_date |-> NoDate, auto_renew |-> TRUE]

\* a plain INSERT on a table without the UNIQUE constraint
InsertKeepingOld(tbl, nid, d, t) == tbl \cup {NewRow(nid, d, t)}

\* INSERT OR REPLACE INTO certificates ...: domain is UNIQUE, so the rows of
\* the domain are deleted before the new row is inserted.
InsertOrReplace(tbl, nid, d, t) ==
    (tbl \ RowsOf(tbl, d)) \cup {NewRow(nid, d, t)}

\* the UPDATE without its WHERE clause
SetStatusEveryRow(tbl, d, s) == {[r EXCEPT !.status = s] : r \in tbl}

\* UPDATE certificates SET status = ? WHERE domain = ?
SetStatus(tbl, d, s) ==
    {IF r.domain = d THEN [r EXCEPT !.status = s] ELSE r : r \in tbl}

\* _update_certificate_expiry: nothing when expiry_date is None
SetExpiry(tbl, d, e) ==
    IF e = NoDate THEN tbl
    ELSE {IF r.domain = d THEN [r EXCEPT !.expiry_date = e] ELSE r : r \in tbl}

\* a DELETE that is not committed
DeleteNothing(tbl, d) == tbl

\* DELETE FROM certificates WHERE domain = ?
DeleteRows(tbl, d) == tbl \ RowsOf(tbl, d)

LogRow(d, a, s, m) == [domain |-> d, action |-> a, status |-> s, message |-> m]

\* an insert that keeps one log row per domain
LogInsertLatestOnly(lg, d, a, s, m) ==
    Append(SelectSeq(lg, LAMBDA x : x.domain # d), LogRow(d, a, s, m))

\* INSERT INTO renewal_logs (domain, action, status, message)
LogInsert(lg, d, a, s, m) == Append(lg, LogRow(d, a, s, m))

\* an UPDATE that matches no row
StatusUpdateNoRow(tbl, d, s) == tbl

\* _update_certificate_status: the UPDATE and the log row, one transaction
StatusUpdateCerts(tbl, d, s) == SetStatus(tbl, d, s)
\* a status update that is not logged
StatusUpdateNoLog(lg, d, s, m) == lg
StatusUpdateLogs(lg, d, s, m) == LogInsert(lg, d, "status_update", s, m)

update_certificate_status(d, s, m) ==
    /\ certificates' = StatusUpdateCerts(certificates, d, s)
    /\ renewal_logs' = StatusUpdateLogs(renewal_logs, d, s, m)
    /\ nextId' = nextId

\* _update_certificate_status(domain, 'active') then
\* _update_certificate_expiry(domain, expiry_date)
mark_active(d, e) ==
    /\ certificates' = SetExpiry(StatusUpdateCerts(certificates, d, "active"), d, e)
    /\ renewal_logs' = StatusUpdateLogs(renewal_logs, d, "active", NULL)
    /\ nextId' = nextId

\* self.config = {}
EmptyConfig == [collected |-> FALSE]
NotExited == <<>>

\* ServerSetup is not running
SetupOff ==
    /\ setup_pc = "off"
    /\ euid = 0
    /\ answers = EmptyConfig
    /\ proceed = "unasked"
    /\ config = EmptyConfig
    /\ tasks_run = <<>>
    /\ setup_log = <<>>
    /\ exit_code = NotExited

\* no file written
NoFile == <<"no file">>

\* no template is being copied
TmplOff ==
    /\ tmpl_pc = "off"
    /\ tmpl_kind = "none"
    /\ template_content = <<>>
    /\ variables = <<>>
    /\ var_i = 0
    /\ content = <<>>
    /\ written = NoFile

\* the command 'new' is not running
VerOff ==
    /\ ver_pc = "off"
    /\ versions = <<>>
    /\ tech_stack = <<>>
    /\ tools = {}
    /\ version_specs = {}
    /\ spec_i = 0
    /\ tech_i = 0
    /\ resolved = {}

\* the managers that share the database
Procs == {1, 2}
NoConn == [op |-> "none"]
NoWork == [open |-> FALSE]

\* no second manager: the database is used through Spec's steps only
ConcOff ==
    /\ conns = [p \in Procs |-> NoConn]
    /\ wlock = 0
    /\ work = NoWork

NoConfig == [loaded |-> FALSE]
NoEvent == [event |-> "none"]

HotOff ==
    /\ hot_config = NoConfig
    /\ last_reload = 0
    /\ clock = 0
    /\ reloads = <<>>
    /\ handled = NoEvent

TaskOff ==
    /\ run_prog = "off"
    /\ run_config = [loaded |-> FALSE]
    /\ run_i = 0
    /\ executed = <<>>
    /\ run_ret = "off"

CfgOff ==
    /\ cfg_prog = "off"
    /\ mem_config = {}
    /\ yaml_file = {}
    /\ cfg_last = [op |-> "none"]

----------------------------------------------------------------------------
Init ==
    /\ CfgOff
    /\ TaskOff
    /\ HotOff
    /\ SetupOff
    /\ TmplOff
    /\ VerOff
    /\ ConcOff
    /\ variant \in {"root", "cli"}
    /\ db_ok = TRUE
    /\ certificates = {}
    /\ renewal_logs = <<>>
    /\ nextId = 1
    /\ acme = {}
    /\ le_live = {}
    /\ ss_dir = {}
    /\ ss_cert = {}
    /\ pc = "menu"
    /\ call = NoCall
    /\ attempt = 0
    /\ slept = 0
    /\ todo = <<>>
    /\ results = {}
    /\ ret = NoRet

\* INSERT OR IGNORE: an existing row of the domain is kept as it is
AddRowOrIgnore(tbl, nid, d, t) ==
    IF RowsOf(tbl, d) # {} THEN tbl ELSE tbl \cup {NewRow(nid, d, t)}

\* the statement add_certificate executes
AddRow(tbl, nid, d, t) == InsertOrReplace(tbl, nid, d, t)

\* add_certificate: the INSERT OR REPLACE and its commit; generation follows.
\* A sqlite3 error is caught by add_certificate's handler: return False.
add_certificate(d, t) ==
    /\ pc = "menu"
    /\ nextId <= MaxId
    /\ Len(renewal_logs) + 1 <= MaxLog
    /\ call' = [op |-> "add_certificate", domain |-> d, cert_type |-> t,
                log0 |-> Len(renewal_logs)]
    /\ IF db_ok
       THEN /\ certificates' = AddRow(certificates, nextId, d, t)
            /\ nextId' = nextId + 1
            /\ pc' = "generate"
            /\ ret' = NoRet
       ELSE /\ UNCHANGED <<certificates, nextId>>
            /\ pc' = "returned"
            /\ ret' = [call |-> "add_certificate", domain |-> d, value |-> FALSE,
                       log0 |-> Len(renewal_logs)]
    /\ UNCHANGED <<outside, renewal_logs, fsVars, attempt, slept, todo, results>>

\* what a generation path returns: to add_certificate's caller, or into the
\* results of renew_certificates
generate_return(v) ==
    /\ ret' = [call |-> IF call.op = "add_certificate" THEN "add_certificate"
                         ELSE "generate_certificate",
               domain |-> call.domain, value |-> v, log0 |-> call.log0]
    /\ IF call.op = "add_certificate"
       THEN pc' = "returned" /\ results' = results
       ELSE /\ pc' = "renew_loop"
            /\ results' = {x \in results : x.domain # call.domain}
                             \cup {[domain |-> call.domain, success |-> v]}
    /\ UNCHANGED <<outside, call, todo>>

\* a sqlite3 error in _update_certificate_status is caught by no handler of
\* the generation path it is called from, and generate_certificate's handler
\* calls _update_certificate_status again: the exception leaves
\* generate_certificate.  add_certificate catches it and returns False;
\* renew_certificates does not, nor does anything above it.
generate_raise ==
    /\ IF call.op = "add_certificate"
       THEN /\ ret' = [call |-> "add_certificate", domain |-> call.domain,
                       value |-> FALSE, log0 |-> call.log0]
            /\ pc' = "returned"
       ELSE /\ ret' = [call |-> "raised", from |-> "generate_certificate",
                       domain |-> call.domain]
            /\ pc' = "crashed"
    /\ UNCHANGED <<outside, call, todo, results>>

\* the end of a generation path: the status update of the path commits and
\* generate_certificate returns v, or the update raises
generate_end(update, v) ==
    IF db_ok THEN update /\ generate_return(v)
    ELSE UNCHANGED dbVars /\ generate_raise

\* generate_certificate of the cli copy dispatches on the type; the root copy
\* has no self-signed path
SelfSignedPath == variant = "cli" /\ call.cert_type = "self-signed"

\* _generate_self_signed_certificate (cli copy); outcome: "ok", "openssl_failed"
\* (CalledProcessError of genrsa or req), "mkdir_failed" (any other exception,
\* handled by generate_certificate)
generate_self_signed_certificate(outcome) ==
    /\ pc = "generate"
    /\ SelfSignedPath
    /\ ss_dir' = IF outcome = "mkdir_failed" THEN ss_dir ELSE ss_dir \cup {call.domain}
    /\ ss_cert' = IF outcome = "ok" THEN ss_cert \cup {call.domain} ELSE ss_cert
    /\ IF outcome = "ok"
       THEN generate_end(mark_active(call.domain, <<validity_days>>), TRUE)
       ELSE generate_end(update_certificate_status(call.domain, "failed", "error"), FALSE)
    /\ UNCHANGED <<acme, le_live, attempt, slept>>

\* _generate_standalone_certificate; outcome: "ok" (certbot exit 0),
\* "certbot_failed" (CalledProcessError), "error" (any other exception, handled
\* by generate_certificate)
generate_standalone_certificate(outcome, expiry) ==
    /\ pc = "generate"
    /\ ~SelfSignedPath
    /\ le_live' = IF outcome = "ok" THEN le_live \cup {call.domain} ELSE le_live
    /\ IF outcome = "ok"
       THEN generate_end(mark_active(call.domain, expiry), TRUE)
       ELSE generate_end(update_certificate_status(call.domain, "failed", "error"), FALSE)
    /\ UNCHANGED <<acme, ss_dir, ss_cert, attempt, slept>>

\* _generate_traefik_certificate up to its wait loop, for a domain
\* _is_traefik_managed found; container: what containers.get reports
generate_traefik_certificate(container) ==
    /\ pc = "generate"
    /\ ~SelfSignedPath
    /\ CASE container = "running" ->
              /\ pc' = "traefik_wait"
              /\ attempt' = 0
              /\ slept' = 0
              /\ UNCHANGED <<dbVars, outside, call, todo, results, ret>>
         [] container \in {"stopped", "not_found"} ->
              /\ generate_return(FALSE)
              /\ UNCHANGED <<dbVars, attempt, slept>>
         [] container = "error" ->
              /\ generate_end(update_certificate_status(call.domain, "failed", "error"),
                              FALSE)
              /\ UNCHANGED <<attempt, slept>>
    /\ UNCHANGED fsVars

\* _check_certificate_exists; readable: acme.json, when there, parses
check_certificate_exists(d, acme_now, readable) ==
    /\ readable
    /\ \/ d \in acme_now
       \/ d \in le_live
       \/ variant = "cli" /\ d \in ss_cert

\* one iteration of the wait loop; issued: Traefik stored the certificate in
\* acme.json since the last look; the expiry is what _get_certificate_expiry
\* reports after a successful check
traefik_wait_check(issued, readable) ==
    /\ pc = "traefik_wait"
    /\ attempt < max_attempts
    /\ acme' = IF issued THEN acme \cup {call.domain} ELSE acme
    /\ IF check_certificate_exists(call.domain, acme', readable)
       THEN /\ \E expiry \in ExpiryDates :
                  generate_end(mark_active(call.domain, expiry), TRUE)
            /\ UNCHANGED <<attempt, slept>>
       ELSE /\ attempt' = attempt + 1
            /\ slept' = slept + sleep_seconds
            /\ UNCHANGED <<dbVars, outside, pc, call, todo, results, ret>>
    /\ UNCHANGED <<le_live, ss_dir, ss_cert>>

\* the loop ran out
traefik_wait_timeout ==
    /\ pc = "traefik_wait"
    /\ attempt >= max_attempts
    /\ generate_end(update_certificate_status(call.domain, "failed", "Generation timeout"),
                    FALSE)
    /\ UNCHANGED <<fsVars, attempt, slept>>

\* an exception no handler catches: it leaves f, the interactive wrapper and
\* show_ssl_menu, and the program ends
crash(f) ==
    /\ pc' = "crashed"
    /\ ret' = [call |-> "raised", from |-> f, domain |-> NULL]

\* get_certificates: SELECT ... ORDER BY domain
DomainRank(d) == CHOOSE i \in 1..Len(DomainOrder) : DomainOrder[i] = d

Orderings(S) ==
    {q \in [1..Cardinality(S) -> S] : \A i, j \in 1..Cardinality(S) : q[i] = q[j] => i = j}

get_certificates ==
    CHOOSE q \in Orderings(certificates) :
        \A i, j \in 1..Len(q) : i < j => DomainRank(q[i].domain) <= DomainRank(q[j].domain)

\* renew_certificates: the rows its SELECT returns
\*   WHERE auto_renew = 1 AND status = 'active'
\*   AND (expiry_date < now + renewal_days_before OR expiry_date IS NULL)
\* a SELECT without the condition on expiry_date
RenewalDueWhateverExpiry(r) == r.auto_renew /\ r.status = "active"

RenewalDue(r) ==
    /\ r.auto_renew
    /\ r.status = "active"
    /\ \/ r.expiry_date = NoDate
       \/ r.expiry_date # NoDate /\ r.expiry_date[1] < renewal_days_before

RenewalRows(tbl) == {r \in tbl : RenewalDue(r)}

\* renew_certificates, reached from the menu when some certificate is active:
\* the SELECT (no ORDER BY: the rows come in an order the code does not fix)
\* (call.before: the table as the SELECT saw it)
renew_certificates ==
    /\ pc = "menu"
    /\ variant = "root"
    /\ call' = [op |-> "renew_certificates", before |-> certificates]
    /\ IF db_ok
       THEN /\ \E r \in certificates : r.status = "active"
            /\ Len(renewal_logs) + Cardinality(RenewalRows(certificates)) <= MaxLog
            /\ todo' \in Orderings(RenewalRows(certificates))
            /\ results' = {}
            /\ pc' = "renew_loop"
            /\ ret' = NoRet
       ELSE crash("renew_certificates") /\ UNCHANGED <<todo, results>>
    /\ UNCHANGED <<outside, dbVars, fsVars, attempt, slept>>

\* for domain, cert_type in certificates: generate_certificate(domain)
renew_next ==
    /\ pc = "renew_loop"
    /\ todo # <<>>
    /\ call' = [op |-> "renew_certificates", before |-> call.before,
                domain |-> Head(todo).domain, cert_type |-> Head(todo).type,
                log0 |-> Len(renewal_logs)]
    /\ todo' = Tail(todo)
    /\ pc' = "generate"
    /\ ret' = NoRet
    /\ attempt' = 0
    /\ slept' = 0
    /\ UNCHANGED <<outside, dbVars, fsVars, results>>

\* return results
renew_done ==
    /\ pc = "renew_loop"
    /\ todo = <<>>
    /\ ret' = [call |-> "renew_certificates", value |-> results]
    /\ pc' = "returned"
    /\ UNCHANGED <<outside, dbVars, fsVars, call, attempt, slept, todo, results>>

\* what the status probes can answer.  _check_domain_ssl_status: 'active',
\* 'failed' (SSLError), 'pending' (any other RequestException), 'unknown' (a
\* response of 400 or more).  _check_self_signed_status (cli copy): 'failed'
\* without the file or when expired, 'active', 'unknown' on an exception.
ProbedStatuses(cert) ==
    IF variant = "cli" /\ cert.type = "self-signed"
    THEN IF cert.domain \in ss_cert THEN {"active", "failed", "unknown"}
         ELSE {"failed", "unknown"}
    ELSE {"active", "failed", "pending", "unknown"}

\* _check_certificate_status_interactive: certificates = self.get_certificates()
check_certificate_status ==
    /\ pc = "menu"
    /\ call' = [op |-> "check_certificate_status"]
    /\ IF db_ok
       THEN /\ certificates # {}
            /\ Len(renewal_logs) + Cardinality(certificates) <= MaxLog
            /\ todo' = get_certificates
            /\ pc' = "check_loop"
            /\ ret' = NoRet
       ELSE crash("get_certificates") /\ todo' = todo
    /\ UNCHANGED <<outside, dbVars, fsVars, attempt, slept, results>>

\* for cert in certificates: probe, and update when the status differs
check_next(status) ==
    /\ pc = "check_loop"
    /\ todo # <<>>
    /\ status \in ProbedStatuses(Head(todo))
    /\ IF status # Head(todo).status /\ ~db_ok
       THEN /\ crash("_update_certificate_status")
            /\ UNCHANGED <<dbVars, todo>>
       ELSE /\ IF status # Head(todo).status
               THEN update_certificate_status(Head(todo).domain, status, NULL)
               ELSE UNCHANGED dbVars
            /\ todo' = Tail(todo)
            /\ pc' = IF Tail(todo) = <<>> THEN "returned" ELSE "check_loop"
            /\ ret' = ret
    /\ UNCHANGED <<outside, fsVars, call, attempt, slept, results>>

\* delete_certificate, reached from the menu for a listed certificate: the
\* DELETE, the log row and their commit; the files follow.  A sqlite3 error is
\* caught by delete_certificate's handler: return False.
delete_certificate(d) ==
    /\ pc = "menu"
    /\ RowsOf(certificates, d) # {}
    /\ Len(renewal_logs) + 1 <= MaxLog
    /\ call' = [op |-> "delete_certificate", domain |-> d,
                cert_type |-> (CHOOSE r \in RowsOf(certificates, d) : TRUE).type,
                log0 |-> Len(renewal_logs)]
    /\ IF db_ok
       THEN /\ certificates' = DeleteRows(certificates, d)
            /\ renewal_logs' =
                   LogInsert(renewal_logs, d, "delete", "success", "Certificate deleted")
            /\ pc' = "delete_files"
            /\ ret' = NoRet
       ELSE /\ UNCHANGED <<certificates, renewal_logs>>
            /\ pc' = "returned"
            /\ ret' = [call |-> "delete_certificate", domain |-> d, value |-> FALSE,
                       log0 |-> Len(renewal_logs)]
    /\ UNCHANGED <<outside, nextId, fsVars, attempt, slept, todo, results>>

\* the directory delete_certificate removes: the cli copy looks at the type the
\* row had, the root copy knows /etc/letsencrypt/live only
RemovesSelfSigned == variant = "cli" /\ call.cert_type = "self-signed"

\* delete_certificate: remove the certificate files; removed: rm / rmtree worked
delete_files(removed) ==
    /\ pc = "delete_files"
    /\ IF RemovesSelfSigned
       THEN /\ ss_dir' = IF removed THEN ss_dir \ {call.domain} ELSE ss_dir
            /\ ss_cert' = IF removed THEN ss_cert \ {call.domain} ELSE ss_cert
            /\ le_live' = le_live
            /\ ret' = [call |-> "delete_certificate", domain |-> call.domain,
                       value |-> (call.domain \notin ss_dir \/ removed),
                       log0 |-> call.log0]
       ELSE /\ le_live' = IF removed THEN le_live \ {call.domain} ELSE le_live
            /\ UNCHANGED <<ss_dir, ss_cert>>
            /\ ret' = [call |-> "delete_certificate", domain |-> call.domain,
                       value |-> (call.domain \notin le_live \/ removed),
                       log0 |-> call.log0]
    /\ pc' = "returned"
    /\ UNCHANGED <<outside, dbVars, acme, call, attempt, slept, todo, results>>

\* the interactive wrapper shows the result and returns to show_ssl_menu,
\* whose loop starts with certificates = self.get_certificates()
press_enter ==
    /\ pc = "returned"
    /\ IF db_ok
       THEN pc' = "menu" /\ ret' = NoRet
       ELSE crash("get_certificates")
    /\ call' = NoCall
    /\ attempt' = 0
    /\ slept' = 0
    /\ todo' = <<>>
    /\ results' = {}
    /\ UNCHANGED <<outside, dbVars, fsVars>>

\* the steps of a manager whose user names the domains of D
NextOver(D) ==
    \/ \E d \in D, t \in CertTypes : add_certificate(d, t)
    \/ \E o \in {"ok", "openssl_failed", "mkdir_failed"} :
          generate_self_signed_certificate(o)
    \/ \E o \in {"ok", "certbot_failed", "error"}, e \in ExpiryDates :
          generate_standalone_certificate(o, e)
    \/ \E c \in {"running", "stopped", "not_found", "error"} :
          generate_traefik_certificate(c)
    \/ \E i \in BOOLEAN, r \in BOOLEAN : traefik_wait_check(i, r)
    \/ traefik_wait_timeout
    \/ renew_certificates
    \/ renew_next
    \/ renew_done
    \/ check_certificate_status
    \/ \E st \in {"active", "failed", "pending", "unknown"} : check_next(st)
    \/ \E d \in D : delete_certificate(d)
    \/ \E r \in BOOLEAN : delete_files(r)
    \/ press_enter

Next == NextOver(Domains)

Spec == Init /\ [][Next]_vars

\* the wait loop keeps running: time.sleep returns, and every probe of
\* _check_certificate_exists ends
traefik_wait_step ==
    \/ \E i \in BOOLEAN, r \in BOOLEAN : traefik_wait_check(i, r)
    \/ traefik_wait_timeout

\* a manager used for one domain, with the wait loop scheduled fairly
NextOneDomain == NextOver({DomainOrder[1]})

WaitSpec == Init /\ [][NextOneDomain]_vars /\ WF_vars(traefik_wait_step)

\* the SQLite file becomes unavailable (locked by another program, disk full,
\* file or directory no longer writable) and available again
database_fails ==
    /\ db_ok
    /\ db_ok' = FALSE
    /\ UNCHANGED <<variant, dbVars, fsVars, ctlVars, notSsl>>

database_recovers ==
    /\ ~db_ok
    /\ db_ok' = TRUE
    /\ UNCHANGED <<variant, dbVars, fsVars, ctlVars, notSsl>>

\* a manager used for one domain whose database can fail
NextDb == NextOneDomain \/ database_fails \/ database_recovers

DbSpec == Init /\ [][NextDb]_vars

----------------------------------------------------------------------------
(* The server setup: ServerSetup.run (src/server/setup.py) and              *)
(* ConfigCollector.collect (src/server/config/collect_config.py).          *)

\* the SSL manager is not running
SslOff ==
    /\ variant = "root"
    /\ db_ok = TRUE
    /\ certificates = {}
    /\ renewal_logs = <<>>
    /\ nextId = 1
    /\ acme = {}
    /\ le_live = {}
    /\ ss_dir = {}
    /\ ss_cert = {}
    /\ pc = "off"
    /\ call = NoCall
    /\ attempt = 0
    /\ slept = 0
    /\ todo = <<>>
    /\ results = {}
    /\ ret = NoRet

\* the users that start the script: root, or the first ordinary user
Euids == {0, 1000}

\* the tasks list of _run_setup_tasks
tasks ==
    <<"System Updates", "User Management", "SSH Configuration", "Security Setup",
      "Docker Installation", "Development Tools", "Web Infrastructure",
      "Final Configuration">>

\* the configurations collect can build, as far as they decide what a task does
Configs == [collected : {TRUE}, install_docker : BOOLEAN, install_nginx : BOOLEAN]

\* how task_func(self.config, self.setup_dir) can end.  system.run and
\* user.run catch CalledProcessError only, the other tasks catch Exception;
\* docker.run and web_server.run return True at once when not asked for.
TaskOutcomes(name, cfg) ==
    CASE name \in {"System Updates", "User Management"} -> {"True", "False", "raised"}
      [] name = "Docker Installation" /\ ~cfg.install_docker -> {"True"}
      [] name = "Web Infrastructure" /\ ~cfg.install_nginx -> {"True"}
      [] OTHER -> {"True", "False"}

SetupInit ==
    /\ CfgOff
    /\ TaskOff
    /\ HotOff
    /\ SslOff
    /\ TmplOff
    /\ VerOff
    /\ ConcOff
    /\ setup_pc = "start"
    /\ euid \in Euids
    /\ answers = EmptyConfig
    /\ proceed = "unasked"
    /\ config = EmptyConfig
    /\ tasks_run = <<>>
    /\ setup_log = <<>>
    /\ exit_code = NotExited

\* a check that lets every user through
NobodyRefused(uid) == FALSE

\* if os.geteuid() != 0
NotRoot(uid) == uid # 0

\* ServerSetup.run up to the root check
run_check_root ==
    /\ setup_pc = "start"
    /\ IF NotRoot(euid)
       THEN setup_pc' = "exited" /\ exit_code' = <<1>>
       ELSE setup_pc' = "collect" /\ exit_code' = exit_code
    /\ UNCHANGED <<notSetup, euid, answers, proceed, config, tasks_run, setup_log>>

\* ConfigCollector.collect up to the summary; port_is_number: the text typed
\* for 'SSH Port' is one int() accepts (a ValueError is caught nowhere)
collect_settings(cfg, port_is_number) ==
    /\ setup_pc = "collect"
    /\ IF port_is_number
       THEN answers' = cfg /\ setup_pc' = "confirm" /\ exit_code' = exit_code
       ELSE answers' = answers /\ setup_pc' = "exited" /\ exit_code' = <<1>>
    /\ UNCHANGED <<notSetup, euid, proceed, config, tasks_run, setup_log>>

\* if not Confirm.ask("Proceed with setup?"): exit(0); return config
proceed_with_setup(answer) ==
    /\ setup_pc = "confirm"
    /\ proceed' = IF answer THEN "yes" ELSE "no"
    /\ IF answer
       THEN config' = answers /\ setup_pc' = "tasks" /\ exit_code' = exit_code
       ELSE config' = config /\ setup_pc' = "exited" /\ exit_code' = <<0>>
    /\ UNCHANGED <<notSetup, euid, answers, tasks_run, setup_log>>

\* the entry one pass of the loop appends to setup_log
setup_log_entry(outcome, name) ==
    [mark |-> CASE outcome = "True" -> "done"
                [] outcome = "False" -> "skipped"
                [] outcome = "raised" -> "error",
     task |-> name]

\* a loop that an exception ends
LoopEndsOnRaise(outcome, n) ==
    IF n = Len(tasks) \/ outcome = "raised" THEN "summary" ELSE "tasks"

\* for task_name, task_func in tasks: after the n-th task, whatever its outcome
LoopGoesOn(outcome, n) == IF n = Len(tasks) THEN "summary" ELSE "tasks"

\* one pass of the loop of _run_setup_tasks
run_setup_task(outcome) ==
    /\ setup_pc = "tasks"
    /\ LET n == Len(tasks_run) + 1
       IN  /\ outcome \in TaskOutcomes(tasks[n], config)
           /\ tasks_run' = Append(tasks_run, tasks[n])
           /\ setup_log' = Append(setup_log, setup_log_entry(outcome, tasks[n]))
           /\ setup_pc' = LoopGoesOn(outcome, n)
    /\ UNCHANGED <<notSetup, euid, answers, proceed, config, exit_code>>

\* _show_summary, and the script ends
show_summary ==
    /\ setup_pc = "summary"
    /\ setup_pc' = "exited"
    /\ exit_code' = <<0>>
    /\ UNCHANGED <<notSetup, euid, answers, proceed, config, tasks_run, setup_log>>

SetupNext ==
    \/ run_check_root
    \/ \E cfg \in Configs, n \in BOOLEAN : collect_settings(cfg, n)
    \/ \E a \in BOOLEAN : proceed_with_setup(a)
    \/ \E o \in {"True", "False", "raised"} : run_setup_task(o)
    \/ show_summary

SetupSpec == SetupInit /\ [][SetupNext]_vars

----------------------------------------------------------------------------
(* Template rendering: _copy_template_files of WordPressManager            *)
(* (src/wordpress_manager.py) and of TemplateManager                       *)
(* (src/template_manager.py).  A text is a sequence of characters.         *)

Braces == {"{", "}"}

\* f'{{{{{var}}}}}': the placeholder of a variable name
Placeholder(var) == <<"{", "{">> \o var \o <<"}", "}">>

RECURSIVE Replace(_, _, _)
RECURSIVE ReplaceFirst(_, _, _)
\* s.replace(p, v, 1): the first occurrence only
ReplaceFirst(s, p, v) ==
    IF Len(s) < Len(p) THEN s
    ELSE IF SubSeq(s, 1, Len(p)) = p THEN v \o SubSeq(s, Len(p) + 1, Len(s))
    ELSE <<s[1]>> \o ReplaceFirst(Tail(s), p, v)

\* s.replace(p, v) of Python, p not empty: every occurrence, found from the
\* left, occurrences not overlapping
Replace(s, p, v) ==
    IF Len(s) < Len(p) THEN s
    ELSE IF SubSeq(s, 1, Len(p)) = p
         THEN v \o Replace(SubSeq(s, Len(p) + 1, Len(s)), p, v)
         ELSE <<s[1]>> \o Replace(Tail(s), p, v)

\* the keys of the variables maps, and the values tried for them
VarNames == {<<"A">>, <<"B">>}
VarValues == {<<>>, <<"x">>, Placeholder(<<"A">>), Placeholder(<<"B">>)}

\* the maps: both keys, in either insertion order
VariableMaps ==
    {m \in [1..2 -> [var : VarNames, value : VarValues]] : m[1].var # m[2].var}

\* the template texts: up to MaxPieces pieces, each a placeholder (of a key of
\* the map or of another name) or a stretch of other text
Pieces ==
    {<<"x">>, <<"{", "{">>, <<"B", "}", "}">>,
     Placeholder(<<"A">>), Placeholder(<<"B">>), Placeholder(<<"C">>)}

RECURSIVE Texts(_)
Texts(n) ==
    IF n = 0 THEN {<<>>}
    ELSE Texts(n - 1) \cup {t \o q : t \in Texts(n - 1), q \in Pieces}

TmplInit ==
    /\ CfgOff
    /\ TaskOff
    /\ HotOff
    /\ SslOff
    /\ SetupOff
    /\ VerOff
    /\ ConcOff
    /\ tmpl_pc = "start"
    /\ tmpl_kind = "none"
    /\ template_content \in Texts(MaxPieces)
    /\ variables \in VariableMaps
    /\ var_i = 0
    /\ content = <<>>
    /\ written = NoFile

\* the loop over the files reaches the template.  kind "wordpress":
\* WordPressManager, which substitutes in every file; "text": TemplateManager
\* and a suffix of its list (.yml .yaml .json .py .js .php .md .txt .env);
\* "other": TemplateManager and any other suffix, copied by shutil.copy2
copy_template_file(kind) ==
    /\ tmpl_pc = "start"
    /\ tmpl_kind' = kind
    /\ IF kind = "other"
       THEN /\ written' = template_content
            /\ content' = content
            /\ tmpl_pc' = "written"
       ELSE /\ content' = template_content
            /\ written' = written
            /\ tmpl_pc' = "substitute"
    /\ UNCHANGED <<notTmpl, template_content, variables, var_i>>

\* for var, value in variables.items():
\*     content = content.replace(f'{{{{{var}}}}}', value)
substitute_variable ==
    /\ tmpl_pc = "substitute"
    /\ var_i < Len(variables)
    /\ content' = Replace(content, Placeholder(variables[var_i + 1].var),
                          variables[var_i + 1].value)
    /\ var_i' = var_i + 1
    /\ UNCHANGED <<notTmpl, tmpl_pc, tmpl_kind, template_content, variables, written>>

\* with open(target, 'w') as f: f.write(content)
write_file ==
    /\ tmpl_pc = "substitute"
    /\ var_i = Len(variables)
    /\ written' = content
    /\ tmpl_pc' = "written"
    /\ UNCHANGED <<notTmpl, tmpl_kind, template_content, variables, var_i, content>>

TmplNext ==
    \/ \E k \in {"wordpress", "text", "other"} : copy_template_file(k)
    \/ substitute_variable
    \/ write_file

TmplSpec == TmplInit /\ [][TmplNext]_vars

----------------------------------------------------------------------------
(* Version resolution for a new project: the command 'new' of src/cli.py   *)
(* parses --versions, TemplateManager._resolve_versions resolves the tech  *)
(* stack of the template.  A text is a sequence of words and blanks " ";   *)
(* a dict is the set of its items.                                         *)

\* str.lower on the words used here
lower(w) ==
    CASE w = "PHP" -> "php"
      [] w = "Node" -> "node"
      [] w = "Redis" -> "redis"
      [] OTHER -> w

\* str.split(): the words of a text
split(t) == SelectSeq(t, LAMBDA w : w # " ")

\* str.strip(): the text without its leading and trailing blanks
RECURSIVE lstrip(_)
lstrip(t) == IF t # <<>> /\ t[1] = " " THEN lstrip(Tail(t)) ELSE t

RECURSIVE rstrip(_)
rstrip(t) ==
    IF t # <<>> /\ t[Len(t)] = " " THEN rstrip(SubSeq(t, 1, Len(t) - 1)) ELSE t

strip(t) == rstrip(lstrip(t))

\* d[k] = v
DictSet(d, k, v) == {x \in d : x.key # k} \cup {[key |-> k, value |-> v]}
DictKeys(d) == {x.key : x \in d}
DictGet(d, k) == (CHOOSE x \in d : x.key = k).value

\* a version manager without defaults
no_default_version(tool) == <<"latest">>

\* VersionManager.get_default_version:
\*   self.config['tools'].get(tool, {}).get('default', 'latest')
get_default_version(tool) ==
    IF tool \in DictKeys(tools) THEN DictGet(tools, tool) ELSE <<"latest">>

\* the specs a user writes in --versions: tool:version, with or without
\* blanks, in either case, or a word without a colon
VersionSpecs ==
    {[colon |-> TRUE, tool |-> <<"php">>, version |-> <<"8.1">>],
     [colon |-> TRUE, tool |-> <<" ", "php">>, version |-> <<"7.4", " ">>],
     [colon |-> TRUE, tool |-> <<"PHP">>, version |-> <<"8.3">>],
     [colon |-> TRUE, tool |-> <<"redis">>, version |-> <<"7">>],
     [colon |-> FALSE, tool |-> <<"node">>, version |-> <<>>]}

\* entries of a tech stack
TechEntries == {<<"PHP", " ", "8.1">>, <<"php">>, <<"Node", " ", "18">>, <<"Redis">>}

\* the defaults the version manager can hold: php and node are tools it
\* knows, set_default_version can have changed a default
ToolConfigs ==
    {{[key |-> <<"php">>, value |-> <<v>>], [key |-> <<"node">>, value |-> <<"18">>]} :
        v \in {"8.2", "8.0"}}

SeqsUpTo(S, n) == UNION {[1..k -> S] : k \in 0..n}

VerInit ==
    /\ CfgOff
    /\ TaskOff
    /\ HotOff
    /\ SslOff
    /\ SetupOff
    /\ TmplOff
    /\ ConcOff
    /\ ver_pc = "parse"
    /\ versions \in SeqsUpTo(VersionSpecs, MaxSpecs)
    /\ tech_stack \in SeqsUpTo(TechEntries, MaxStack)
    /\ tools \in ToolConfigs
    /\ version_specs = {}
    /\ spec_i = 0
    /\ tech_i = 0
    /\ resolved = {}

\* cli.new, one pass of: for spec in versions.split(','):
\*     if ':' in spec: tool, version = spec.split(':', 1)
\*                     version_specs[tool.strip()] = version.strip()
parse_version_spec ==
    /\ ver_pc = "parse"
    /\ spec_i < Len(versions)
    /\ LET spec == versions[spec_i + 1]
       IN  version_specs' =
               IF spec.colon
               THEN DictSet(version_specs, strip(spec.tool), strip(spec.version))
               ELSE version_specs
    /\ spec_i' = spec_i + 1
    /\ UNCHANGED <<notVer, ver_pc, versions, tech_stack, tools, tech_i, resolved>>

\* create_project_from_template(template, name, domain, version_specs) calls
\* self._resolve_versions(template_config, version_specs)
call_resolve_versions ==
    /\ ver_pc = "parse"
    /\ spec_i = Len(versions)
    /\ ver_pc' = "resolve"
    /\ resolved' = {}
    /\ UNCHANGED <<notVer, versions, tech_stack, tools, version_specs, spec_i, tech_i>>

\* _resolve_versions, one pass of: for tech in tech_stack
resolve_tool ==
    /\ ver_pc = "resolve"
    /\ tech_i < Len(tech_stack)
    /\ LET tool_name == <<lower(split(tech_stack[tech_i + 1])[1])>>
       IN  resolved' =
               IF version_specs # {} /\ tool_name \in DictKeys(version_specs)
               THEN DictSet(resolved, tool_name, DictGet(version_specs, tool_name))
               ELSE DictSet(resolved, tool_name, get_default_version(tool_name))
    /\ tech_i' = tech_i + 1
    /\ UNCHANGED <<notVer, ver_pc, versions, tech_stack, tools, version_specs, spec_i>>

\* return resolved
return_resolved ==
    /\ ver_pc = "resolve"
    /\ tech_i = Len(tech_stack)
    /\ ver_pc' = "resolved"
    /\ UNCHANGED <<notVer, versions, tech_stack, tools, version_specs, spec_i, tech_i,
                   resolved>>

VerNext ==
    \/ parse_version_spec
    \/ call_resolve_versions
    \/ resolve_tool
    \/ return_resolved

VerSpec == VerInit /\ [][VerNext]_vars

----------------------------------------------------------------------------
(* Two managers on the same SQLite file.  Each of add_certificate,         *)
(* _update_certificate_status and delete_certificate opens a connection,   *)
(* executes its statements and commits.  sqlite3 opens a transaction       *)
(* before the first INSERT, UPDATE or DELETE of a connection; the          *)
(* statement takes the database's write lock, which one connection can     *)
(* hold; what it writes is seen by others from its commit on.              *)

\* the statements of the three operations, in the order they are executed
Statements(op) ==
    CASE op = "add_certificate" -> <<"INSERT OR REPLACE certificates">>
      [] op = "update_certificate_status" ->
             <<"UPDATE certificates", "INSERT renewal_logs">>
      [] op = "delete_certificate" ->
             <<"DELETE certificates", "INSERT renewal_logs">>

Tables == [open |-> TRUE, certificates |-> certificates,
           renewal_logs |-> renewal_logs, nextId |-> nextId]

\* the tables after a statement of the connection c
Execute(c, stmt, t) ==
    CASE stmt = "INSERT OR REPLACE certificates" ->
             [t EXCEPT !.certificates = AddRow(t.certificates, t.nextId, c.domain, c.cert_type),
                       !.nextId = t.nextId + 1]
      [] stmt = "UPDATE certificates" ->
             [t EXCEPT !.certificates = StatusUpdateCerts(t.certificates, c.domain, c.status)]
      [] stmt = "INSERT renewal_logs" /\ c.op = "update_certificate_status" ->
             [t EXCEPT !.renewal_logs = StatusUpdateLogs(t.renewal_logs, c.domain, c.status, NULL)]
      [] stmt = "DELETE certificates" ->
             [t EXCEPT !.certificates = DeleteRows(t.certificates, c.domain)]
      [] stmt = "INSERT renewal_logs" /\ c.op = "delete_certificate" ->
             [t EXCEPT !.renewal_logs =
                  LogInsert(t.renewal_logs, c.domain, "delete", "success", "Certificate deleted")]

\* a connection in autocommit mode: every statement is its own transaction
SeenAfterStatementAutocommit(committed, uncommitted) == uncommitted

\* what the database file holds, as any connection reads it, after a
\* statement of an open transaction: the committed tables
SeenAfterStatement(committed, uncommitted) == committed

ConcInit ==
    /\ CfgOff
    /\ TaskOff
    /\ HotOff
    /\ SetupOff
    /\ TmplOff
    /\ VerOff
    /\ variant = "root"
    /\ db_ok = TRUE
    /\ certificates = {}
    /\ renewal_logs = <<>>
    /\ nextId = 1
    /\ acme = {}
    /\ le_live = {}
    /\ ss_dir = {}
    /\ ss_cert = {}
    /\ pc = "off"
    /\ call = NoCall
    /\ attempt = 0
    /\ slept = 0
    /\ todo = <<>>
    /\ results = {}
    /\ ret = NoRet
    /\ conns = [p \in Procs |-> NoConn]
    /\ wlock = 0
    /\ work = NoWork

concFixed == <<variant, db_ok, fsVars, ctlVars, setupVars, tmplVars, verVars, hotVars, taskVars, cfgVars>>

\* conn = sqlite3.connect(self.db_path), in one of the three operations
connect(p, op, d, t, st) ==
    /\ conns[p] = NoConn
    /\ conns' = [conns EXCEPT ![p] =
                    [op |-> op, domain |-> d, cert_type |-> t, status |-> st, done |-> 0]]
    /\ UNCHANGED <<concFixed, dbVars, wlock, work>>

\* cursor.execute(...): the next statement of the operation
execute(p) ==
    /\ conns[p] # NoConn
    /\ conns[p].done < Len(Statements(conns[p].op))
    /\ wlock \in {0, p}
    /\ (wlock = p) = (conns[p].done > 0)
    /\ LET stmt == Statements(conns[p].op)[conns[p].done + 1]
           before == IF wlock = p THEN work ELSE Tables
           after == Execute(conns[p], stmt, before)
           seen == SeenAfterStatement(Tables, after)
       IN  /\ before.nextId <= MaxId \/ conns[p].op # "add_certificate"
           /\ Len(before.renewal_logs) < MaxLog \/ conns[p].op = "add_certificate"
           /\ work' = after
           /\ certificates' = seen.certificates
           /\ renewal_logs' = seen.renewal_logs
           /\ nextId' = seen.nextId
    /\ wlock' = p
    /\ conns' = [conns EXCEPT ![p].done = @ + 1]
    /\ UNCHANGED concFixed

\* conn.commit(); conn.close()
commit(p) ==
    /\ conns[p] # NoConn
    /\ conns[p].done = Len(Statements(conns[p].op))
    /\ wlock = p
    /\ certificates' = work.certificates
    /\ renewal_logs' = work.renewal_logs
    /\ nextId' = work.nextId
    /\ wlock' = 0
    /\ work' = NoWork
    /\ conns' = [conns EXCEPT ![p] = NoConn]
    /\ UNCHANGED concFixed

\* the first statement finds the write lock held by the other manager for
\* longer than the connection's timeout: sqlite3.OperationalError (database
\* is locked), the operation ends with nothing written
database_is_locked(p) ==
    /\ conns[p] # NoConn
    /\ conns[p].done = 0
    /\ wlock \notin {0, p}
    /\ conns' = [conns EXCEPT ![p] = NoConn]
    /\ UNCHANGED <<concFixed, dbVars, wlock, work>>

\* a statement raises, or the process is killed, before the commit: the
\* connection goes and SQLite rolls its transaction back
rollback(p) ==
    /\ conns[p] # NoConn
    /\ wlock = p
    /\ wlock' = 0
    /\ work' = NoWork
    /\ conns' = [conns EXCEPT ![p] = NoConn]
    /\ UNCHANGED <<concFixed, dbVars>>

ConcNext ==
    \E p \in Procs :
        \/ \E d \in Domains, t \in CertTypes : connect(p, "add_certificate", d, t, "pending")
        \/ \E d \in Domains, st \in {"active", "failed"} :
              connect(p, "update_certificate_status", d, "letsencrypt", st)
        \/ \E d \in Domains : connect(p, "delete_certificate", d, "letsencrypt", "success")
        \/ execute(p)
        \/ commit(p)
        \/ database_is_locked(p)
        \/ rollback(p)

ConcSpec == ConcInit /\ [][ConcNext]_vars

----------------------------------------------------------------------------
(* HotReloadHandler (src/build_system.py).  watchdog hands the events of   *)
(* the observer to on_modified one after the other, from one thread; a     *)
(* step is one call of on_modified, or a second passing.  A path is the    *)
(* sequence of the fragments its text is made of, so that 'pattern in      *)
(* str(file_path)' is a fragment of the sequence.                          *)

debounce_seconds == 2

\* the clock stops here
MaxTime == 6
\* the longest a reload command runs, in seconds
MaxReloadTime == 2

skip_patterns == {".git", "node_modules", "__pycache__", ".pytest_cache",
                  ".vscode", ".idea", "dist", "build", ".next"}

default_extensions == {".py", ".js", ".ts", ".vue", ".php", ".html", ".css", ".scss"}

\* the paths events come with
Paths == {<<"src", "/", "app", ".py">>,
          <<"src", "/", "re", "build", ".py">>,
          <<"node_modules", "/", "x", ".js">>,
          <<"src", "/", "notes", ".txt">>,
          <<"src", "/", ".py">>,
          <<"Makefile">>}

Events == [is_directory : BOOLEAN, src_path : Paths]

\* build.yml as _load_config returns it: no file or no hot_reload key, or a
\* hot_reload section with or without its command and its extensions
HotConfigs ==
    [loaded : {TRUE}, has_command : BOOLEAN, has_extensions : {FALSE}, extensions : {{}}]
    \cup [loaded : {TRUE}, has_command : BOOLEAN, has_extensions : {TRUE},
          extensions : {{".txt"}, {".py", ".txt"}}]

\* Path.suffix: the last fragment when it is an extension of a name that
\* has something before it
suffix(path) ==
    IF /\ Len(path) > 1
       /\ path[Len(path)] \in default_extensions \cup {".txt"}
       /\ path[Len(path) - 1] # "/"
    THEN path[Len(path)]
    ELSE ""

reload_extensions(cfg) ==
    IF cfg.has_extensions THEN cfg.extensions ELSE default_extensions

_should_reload(cfg, path) ==
    IF \E i \in 1..Len(path) : path[i] \in skip_patterns
    THEN FALSE
    ELSE suffix(path) \in reload_extensions(cfg)

\* no debouncing: every event goes on to _should_reload
NeverDebounced(now, last) == FALSE

\* now - self.last_reload < self.debounce_seconds
Debounced(now, last) == now < last + debounce_seconds

HotInit ==
    /\ CfgOff
    /\ TaskOff
    /\ SslOff
    /\ SetupOff
    /\ TmplOff
    /\ VerOff
    /\ ConcOff
    /\ hot_config \in HotConfigs
    /\ last_reload = 0
    /\ clock = debounce_seconds
    /\ reloads = <<>>
    /\ handled = NoEvent

\* a second passes with no event handled
second_passes ==
    /\ clock < MaxTime
    /\ clock' = clock + 1
    /\ UNCHANGED <<hot_config, last_reload, reloads, handled, notHot>>

\* on_modified(event) returning before _trigger_reload
on_modified_ignored(event) ==
    /\ \/ event.is_directory
       \/ Debounced(clock, last_reload)
       \/ ~_should_reload(hot_config, event.src_path)
    /\ handled' = [event |-> event, now |-> clock,
                   outcome |-> IF event.is_directory THEN "directory"
                               ELSE IF Debounced(clock, last_reload) THEN "debounced"
                               ELSE "not a reload file"]
    /\ UNCHANGED <<hot_config, last_reload, clock, reloads, notHot>>

\* on_modified(event) with _trigger_reload and no reload command configured
on_modified_no_command(event) ==
    /\ ~event.is_directory
    /\ ~Debounced(clock, last_reload)
    /\ _should_reload(hot_config, event.src_path)
    /\ ~hot_config.has_command
    /\ last_reload' = clock
    /\ handled' = [event |-> event, now |-> clock, outcome |-> "no command"]
    /\ UNCHANGED <<hot_config, clock, reloads, notHot>>

\* on_modified(event) with _trigger_reload running the reload command, which
\* takes d seconds and succeeds or not
on_modified_reload(event, d, ok) ==
    /\ ~event.is_directory
    /\ ~Debounced(clock, last_reload)
    /\ _should_reload(hot_config, event.src_path)
    /\ hot_config.has_command
    /\ clock + d <= MaxTime
    /\ reloads' = Append(reloads, clock)
    /\ clock' = clock + d
    /\ last_reload' = clock
    /\ handled' = [event |-> event, now |-> clock,
                   outcome |-> IF ok THEN "reloaded" ELSE "reload failed"]
    /\ UNCHANGED <<hot_config, notHot>>

\* on_modified(event) with os.chdir or the start of the shell raising in
\* _trigger_reload: no command runs and on_modified ends there
on_modified_raises(event) ==
    /\ ~event.is_directory
    /\ ~Debounced(clock, last_reload)
    /\ _should_reload(hot_config, event.src_path)
    /\ hot_config.has_command
    /\ handled' = [event |-> event, now |-> clock, outcome |-> "raised"]
    /\ UNCHANGED <<hot_config, last_reload, clock, reloads, notHot>>

HotNext ==
    \/ second_passes
    \/ \E event \in Events :
         \/ on_modified_ignored(event)
         \/ on_modified_no_command(event)
         \/ \E d \in 0..MaxReloadTime, ok \in BOOLEAN : on_modified_reload(event, d, ok)
         \/ on_modified_raises(event)

HotSpec == HotInit /\ [][HotNext]_vars

----------------------------------------------------------------------------
(* Functions that run their commands one after the other and stop at the   *)
(* first that fails: BuildSystem.run_build (src/build_system.py), and the  *)
(* setup tasks ssh.run and security.run (src/server/tasks).  A step of     *)
(* the model is one command, or one file operation, of the function; what  *)
(* a function runs is the list of its steps in the order of its code.      *)

\* build steps a target lists at most
MaxSteps == 3

BuildCommands == {"npm install", "npm run build"}
StepLists == SeqsUpTo(BuildCommands, MaxSteps)

\* self.config.get('build', {}): target -> list of steps
BuildConfigs ==
    {{}} \cup {{[key |-> "dev", value |-> l]} : l \in StepLists}
         \cup {{[key |-> "dev", value |-> l1], [key |-> "prod", value |-> l2]} :
                  l1 \in StepLists, l2 \in StepLists}

\* build_steps = self.config.get('build', {}).get(target, [])
build_steps(cfg) ==
    IF cfg.target \in DictKeys(cfg.build) THEN DictGet(cfg.build, cfg.target) ELSE <<>>

\* the configuration ConfigCollector.collect hands to the tasks
TaskConfigs ==
    [loaded : {TRUE}, username : {"developer"}, ssh_port : {22, 2222},
     ssh_key_type : {"generate"},
     has_setup_firewall : BOOLEAN, setup_firewall : BOOLEAN]
    \cup [loaded : {TRUE}, username : {"developer"}, ssh_port : {22, 2222},
          ssh_key_type : {"paste"}, ssh_public_key : {"", "ssh-ed25519 AAAA"},
          has_setup_firewall : BOOLEAN, setup_firewall : BOOLEAN]

\* _configure_sshd: the block appended to sshd_config, then the restart
_configure_sshd(cfg) ==
    << <<"append", "/etc/ssh/sshd_config", "Port", ToString(cfg.ssh_port),
         "PermitRootLogin no", "PasswordAuthentication no", "AllowUsers", cfg.username>>,
       <<"systemctl", "restart", "sshd">> >>

\* public_key: the pasted key, or what was read from id_rsa.pub
public_key(cfg) ==
    IF cfg.ssh_key_type = "generate" THEN "contents of id_rsa.pub" ELSE cfg.ssh_public_key

\* ssh.run with the daemon configured before the key is in place
ssh_run_sshd_first(cfg) ==
    _configure_sshd(cfg)
    \o << <<"mkdir", ".ssh">>,
          <<"write", "authorized_keys", public_key(cfg)>> >>

\* ssh.run: the body of its try block
ssh_run(cfg) ==
    << <<"mkdir", ".ssh">> >>
    \o (IF cfg.ssh_key_type = "generate"
        THEN << <<"ssh-keygen", "-f", "id_rsa">>, <<"read", "id_rsa.pub">> >>
        ELSE <<>>)
    \o << <<"write", "authorized_keys", public_key(cfg)>>,
          <<"chmod", "600", "authorized_keys">>,
          <<"chown", "-R", cfg.username, ".ssh">> >>
    \o _configure_sshd(cfg)

RECURSIVE ufw_allow(_)
ufw_allow(ports) ==
    IF ports = <<>> THEN <<>>
    ELSE << <<"ufw", "allow", Head(ports)>> >> \o ufw_allow(Tail(ports))

\* _setup_firewall enabling the firewall before the rules are in
_setup_firewall_enable_first(cfg) ==
    << <<"ufw", "--force", "reset">>,
       <<"ufw", "--force", "enable">> >>
    \o ufw_allow(<<ToString(cfg.ssh_port), "80", "443", "8080", "81", "9000">>)

_setup_firewall(cfg) ==
    << <<"ufw", "--force", "reset">>,
       <<"ufw", "default", "deny", "incoming">>,
       <<"ufw", "default", "allow", "outgoing">> >>
    \o ufw_allow(<<ToString(cfg.ssh_port), "80", "443", "8080", "81", "9000">>)
    \o << <<"ufw", "--force", "enable">> >>

\* security.run: the body of its try block
security_run(cfg) ==
    << <<"write", "/etc/fail2ban/jail.local">>,
       <<"systemctl", "enable", "fail2ban">>,
       <<"systemctl", "start", "fail2ban">> >>
    \o (IF (IF cfg.has_setup_firewall THEN cfg.setup_firewall ELSE TRUE)
        THEN _setup_firewall(cfg)
        ELSE <<>>)

\* subprocess.run(step, shell=True): the step is handed to the shell
shell(step) == <<"sh", "-c", step>>

Steps ==
    CASE run_prog = "run_build" ->
             [i \in 1..Len(build_steps(run_config)) |-> shell(build_steps(run_config)[i])]
      [] run_prog = "ssh.run" -> ssh_run(run_config)
      [] run_prog = "security.run" -> security_run(run_config)

\* how a step can end: a file operation raises OSError; a command exits
\* with a non-zero status (CalledProcessError, check=True) or cannot be
\* started (OSError; for run_build, os.chdir before it raises)
StepOutcomes(cmd) ==
    IF cmd[1] \in {"mkdir", "read", "write", "append"}
    THEN {"ok", "OSError"}
    ELSE {"ok", "CalledProcessError", "OSError"}

\* a function that goes on after a step has failed
ignore_exception(prog, exc) == "running"

\* run_build: except subprocess.CalledProcessError: return False, anything
\* else leaves the function; the tasks: except Exception: return False
on_exception(prog, exc) ==
    IF prog = "run_build" /\ exc # "CalledProcessError" THEN "raised" ELSE "False"

\* run_build: if not build_steps: return
no_build_steps ==
    /\ run_prog = "run_build"
    /\ run_ret = "running"
    /\ build_steps(run_config) = <<>>
    /\ run_ret' = "None"
    /\ UNCHANGED <<run_prog, run_config, run_i, executed, notTask>>

\* the next step of the function
run_step(outcome) ==
    /\ run_ret = "running"
    /\ run_i < Len(Steps)
    /\ outcome \in StepOutcomes(Steps[run_i + 1])
    /\ executed' = Append(executed, [cmd |-> Steps[run_i + 1], outcome |-> outcome])
    /\ IF outcome = "ok"
       THEN /\ run_i' = run_i + 1
            /\ run_ret' = run_ret
       ELSE /\ run_i' = run_i
            /\ run_ret' = on_exception(run_prog, outcome)
    /\ UNCHANGED <<run_prog, run_config, notTask>>

\* return True, after the last step
run_returns ==
    /\ run_ret = "running"
    /\ Steps # <<>>
    /\ run_i = Len(Steps)
    /\ run_ret' = "True"
    /\ UNCHANGED <<run_prog, run_config, run_i, executed, notTask>>

BuildInit ==
    /\ CfgOff
    /\ SslOff
    /\ SetupOff
    /\ TmplOff
    /\ VerOff
    /\ ConcOff
    /\ HotOff
    /\ run_prog = "run_build"
    /\ run_config \in [loaded : {TRUE}, build : BuildConfigs, target : {"dev", "prod"}]
    /\ run_i = 0
    /\ executed = <<>>
    /\ run_ret = "running"

BuildNext ==
    \/ no_build_steps
    \/ \E outcome \in {"ok", "CalledProcessError", "OSError"} : run_step(outcome)
    \/ run_returns

BuildSpec == BuildInit /\ [][BuildNext]_vars

TaskInit ==
    /\ CfgOff
    /\ SslOff
    /\ SetupOff
    /\ TmplOff
    /\ VerOff
    /\ ConcOff
    /\ HotOff
    /\ run_prog \in {"ssh.run", "security.run"}
    /\ run_config \in TaskConfigs
    /\ run_i = 0
    /\ executed = <<>>
    /\ run_ret = "running"

TaskNext ==
    \/ \E outcome \in {"ok", "CalledProcessError", "OSError"} : run_step(outcome)
    \/ run_returns

TaskSpec == TaskInit /\ [][TaskNext]_vars

----------------------------------------------------------------------------
(* Configuration kept in a YAML file: VersionManager (versions.yml,        *)
(* src/version_manager.py) and the configuration menu of SSLManager        *)
(* (config.yml, src/ssl_manager.py).  A configuration is a dict from key   *)
(* paths to values; a value is a scalar or a list of scalars, and a scalar *)
(* has a Python type and a text.  The file holds what yaml.dump emits for  *)
(* each key: the text of every scalar, and whether it is quoted.           *)

Str(s) == [t |-> "str", s |-> s]
Int(s) == [t |-> "int", s |-> s]
Bool(s) == [t |-> "bool", s |-> s]
Scalar(x) == [list |-> FALSE, items |-> <<x>>]
ListOfStr(l) == [list |-> TRUE, items |-> [i \in 1..Len(l) |-> Str(l[i])]]

\* what YAML's implicit resolver makes of a plain scalar
Resolve(text) ==
    IF text \in {"7", "9", "10", "11", "14", "16", "18", "20", "22", "24", "2", "3",
                 "30", "90", "123"} THEN "int"
    ELSE IF text \in {"7.4", "8.0", "8.1", "8.2", "8.3", "8.4", "6.2", "6.3", "6.4",
                      "3.8", "3.9", "3.10", "3.11", "3.12", "3.13"} THEN "float"
    ELSE IF text \in {"true", "false", "yes", "no", "on", "off", "True", "False"} THEN "bool"
    ELSE IF text \in {"", "~", "null"} THEN "null"
    ELSE "str"

\* yaml.dump of a scalar: a str that a plain scalar would not give back is quoted
EmitScalar(x) ==
    CASE x.t = "str" -> [text |-> x.s, quoted |-> Resolve(x.s) # "str"]
      [] x.t = "bool" -> [text |-> IF x.s = "True" THEN "true" ELSE "false", quoted |-> FALSE]
      [] x.t = "int" -> [text |-> x.s, quoted |-> FALSE]

\* yaml.safe_load of a scalar
ParseScalar(e) ==
    IF e.quoted THEN Str(e.text)
    ELSE CASE Resolve(e.text) = "int" -> Int(e.text)
           [] Resolve(e.text) = "bool" ->
                  Bool(IF e.text \in {"true", "yes", "on", "True"} THEN "True" ELSE "False")
           [] Resolve(e.text) = "float" -> [t |-> "float", s |-> e.text]
           [] Resolve(e.text) = "null" -> [t |-> "NoneType", s |-> "None"]
           [] Resolve(e.text) = "str" -> Str(e.text)

\* yaml.dump(self.config, f, default_flow_style=False)
yaml_dump(cfg) ==
    {[key |-> x.key,
      value |-> [list |-> x.value.list,
                 items |-> [i \in 1..Len(x.value.items) |-> EmitScalar(x.value.items[i])]]] :
     x \in cfg}

\* yaml.safe_load(f)
yaml_safe_load(file) ==
    {[key |-> x.key,
      value |-> [list |-> x.value.list,
                 items |-> [i \in 1..Len(x.value.items) |-> ParseScalar(x.value.items[i])]]] :
     x \in file}

\* VersionManager.get_default_config: for each tool its default and its
\* available versions (the keys no code changes, docker_image and the
\* like, are left out), and the preferences
ToolDefaults ==
    {[tool |-> "php", default |-> "8.2", available |-> <<"7.4", "8.0", "8.1", "8.2", "8.3">>],
     [tool |-> "node", default |-> "18", available |-> <<"16", "18", "20", "latest">>],
     [tool |-> "python", default |-> "3.11", available |-> <<"3.8", "3.9", "3.10", "3.11", "3.12">>],
     [tool |-> "wordpress", default |-> "6.4", available |-> <<"6.2", "6.3", "6.4", "latest">>],
     [tool |-> "laravel", default |-> "10", available |-> <<"9", "10", "11">>],
     [tool |-> "vue", default |-> "3", available |-> <<"2", "3">>],
     [tool |-> "nuxt", default |-> "3", available |-> <<"2", "3">>]}

get_default_config ==
    {[key |-> <<"tools", x.tool, "default">>, value |-> Scalar(Str(x.default))] : x \in ToolDefaults}
    \cup {[key |-> <<"tools", x.tool, "available">>, value |-> ListOfStr(x.available)] : x \in ToolDefaults}
    \cup {[key |-> <<"preferences", "auto_update">>, value |-> Scalar(Bool("True"))],
          [key |-> <<"preferences", "check_latest">>, value |-> Scalar(Bool("True"))],
          [key |-> <<"preferences", "cache_duration">>, value |-> Scalar(Int("24"))]}

\* SSLManager.load_config: default_config
default_config ==
    {[key |-> <<"letsencrypt", "email">>, value |-> Scalar(Str("admin@example.com"))],
     [key |-> <<"letsencrypt", "staging">>, value |-> Scalar(Bool("False"))],
     [key |-> <<"letsencrypt", "key_type">>, value |-> Scalar(Str("rsa2048"))],
     [key |-> <<"notifications", "enabled">>, value |-> Scalar(Bool("True"))],
     [key |-> <<"notifications", "email">>, value |-> Scalar(Str("admin@example.com"))],
     [key |-> <<"notifications", "renewal_days_before">>, value |-> Scalar(Int("30"))],
     [key |-> <<"docker", "traefik_container">>, value |-> Scalar(Str("traefik"))],
     [key |-> <<"docker", "nginx_container">>, value |-> Scalar(Str("nginx-proxy-manager"))],
     [key |-> <<"backup", "enabled">>, value |-> Scalar(Bool("True"))],
     [key |-> <<"backup", "retention_days">>, value |-> Scalar(Int("90"))],
     [key |-> <<"backup", "backup_path">>, value |-> Scalar(Str("~/.ssl-manager/backups"))]}

\* tool in self.config['tools']
KnownTools(cfg) == {x.key[2] : x \in {y \in cfg : y.key[1] = "tools"}}

\* the tools the menus are used on in the model, and what the version
\* check can return for them (a tool whose check fails is left out)
MenuTools == {"php", "node", "vue"}
Maybe(tool, vs) == {<<>>} \cup {<<[tool |-> tool, version |-> v]>> : v \in vs}
LatestVersions ==
    {a \o b \o c : a \in Maybe("php", {"8.3", "8.4"}), b \in Maybe("node", {"20", "22"}),
                   c \in Maybe("wordpress", {"6.8.1"})}

\* a change of self.config that is not followed by save_config
unsaved(cfg, file) == file

\* save_config, after a change of self.config
save_config(cfg, file) == yaml_dump(cfg)

\* VersionManager.set_default_version, on the pair of self.config and the file
set_default_version(st, tool, version) ==
    IF tool \in KnownTools(st.mem)
    THEN LET cfg == DictSet(st.mem, <<"tools", tool, "default">>, Scalar(Str(version)))
         IN  [mem |-> cfg, file |-> save_config(cfg, st.file)]
    ELSE st

RECURSIVE set_defaults(_, _)
set_defaults(st, items) ==
    IF items = <<>> THEN st
    ELSE set_defaults(set_default_version(st, Head(items).tool, Head(items).version), Tail(items))

CfgInit ==
    /\ SslOff
    /\ SetupOff
    /\ TmplOff
    /\ VerOff
    /\ ConcOff
    /\ HotOff
    /\ TaskOff
    /\ \/ /\ cfg_prog = "VersionManager"
          /\ \/ mem_config = get_default_config
             \/ mem_config = {x \in get_default_config : x.key[2] # "wordpress"}
       \/ /\ cfg_prog = "SSLManager"
          /\ mem_config = default_config
    /\ yaml_file = yaml_dump(mem_config)
    /\ cfg_last = [op |-> "none"]

\* _set_default_version_interactive: a tool of the config, one of its
\* available versions
set_default_version_interactive(tool, n) ==
    /\ cfg_prog = "VersionManager"
    /\ tool \in KnownTools(mem_config)
    /\ n \in 1..Len(DictGet(mem_config, <<"tools", tool, "available">>).items)
    /\ LET new_version == DictGet(mem_config, <<"tools", tool, "available">>).items[n].s
           st == set_default_version([mem |-> mem_config, file |-> yaml_file], tool, new_version)
       IN  /\ mem_config' = st.mem
           /\ yaml_file' = st.file
           /\ cfg_last' = [op |-> "set_default_version", items |-> <<[tool |-> tool, version |-> new_version]>>]
    /\ UNCHANGED <<cfg_prog, notCfg>>

\* _check_latest_versions_interactive
check_latest_versions_interactive(latest_versions, update) ==
    /\ cfg_prog = "VersionManager"
    /\ LET st == IF latest_versions # <<>> /\ update
                 THEN set_defaults([mem |-> mem_config, file |-> yaml_file], latest_versions)
                 ELSE [mem |-> mem_config, file |-> yaml_file]
       IN  /\ mem_config' = st.mem
           /\ yaml_file' = st.file
           /\ cfg_last' = [op |-> IF latest_versions # <<>> /\ update
                                  THEN "set_default_version" ELSE "check_latest_versions",
                           items |-> latest_versions]
    /\ UNCHANGED <<cfg_prog, notCfg>>

\* _configuration_menu, choices 1 to 4: the keys it sets, then save_config
configuration_menu(choice, changes) ==
    /\ cfg_prog = "SSLManager"
    /\ LET RECURSIVE Set(_, _)
           Set(cfg, l) == IF l = <<>> THEN cfg
                          ELSE Set(DictSet(cfg, Head(l).key, Scalar(Head(l).value)), Tail(l))
           cfg == Set(mem_config, changes)
       IN  /\ mem_config' = cfg
           /\ yaml_file' = save_config(cfg, yaml_file)
    /\ cfg_last' = [op |-> "_configuration_menu", choice |-> choice]
    /\ UNCHANGED <<cfg_prog, notCfg>>

CfgNext ==
    \/ \E tool \in MenuTools, n \in 1..5 : set_default_version_interactive(tool, n)
    \/ \E latest \in LatestVersions, update \in BOOLEAN :
          check_latest_versions_interactive(latest, update)
    \/ \E new_email \in {"admin@example.com", "ops@example.com", "no"} :
          configuration_menu(1, <<[key |-> <<"letsencrypt", "email">>, value |-> Str(new_email)]>>)
    \/ configuration_menu(2, <<[key |-> <<"letsencrypt", "staging">>,
                                value |-> Bool(IF DictGet(mem_config, <<"letsencrypt", "staging">>).items[1].s = "True"
                                               THEN "False" ELSE "True")]>>)
    \/ \E days \in {"7", "30"} :
          configuration_menu(3, <<[key |-> <<"notifications", "renewal_days_before">>, value |-> Int(days)]>>)
    \/ \E traefik \in {"traefik", "123"}, nginx \in {"nginx-proxy-manager", ""} :
          configuration_menu(4, <<[key |-> <<"docker", "traefik_container">>, value |-> Str(traefik)],
                                  [key |-> <<"docker", "nginx_container">>, value |-> Str(nginx)]>>)

CfgSpec == CfgInit /\ [][CfgNext]_vars

----------------------------------------------------------------------------
(* The claims. *)

Statuses == {"pending", "active", "failed"}

ReturnedFromGeneration == ret.call \in {"add_certificate", "generate_certificate"}

\* C1: every certificate row's status is one of pending, active, failed.
C1_StatusIsEnum == \A r \in certificates : r.status \in Statuses

\* C2: the certificates table holds at most one row per domain.
C2_DomainUnique ==
    \A r1, r2 \in certificates : r1.domain = r2.domain => r1 = r2

\* C2 witness: add_certificate has replaced the row of a domain (row 1 is gone,
\* nothing was ever deleted, row 2 is there).
C2_Witness ==
    /\ \E r \in certificates : r.id = 2
    /\ \A r \in certificates : r.id # 1
    /\ \A i \in 1..Len(renewal_logs) : renewal_logs[i].action # "delete"

\* C3: when add_certificate is about to start generation, the domain's row is
\* committed with status pending and no generation step has logged anything.
C3_PendingBeforeGeneration ==
    (pc = "generate" /\ call.op = "add_certificate") =>
        /\ RowsOf(certificates, call.domain) # {}
        /\ \A r \in RowsOf(certificates, call.domain) : r.status = "pending"
        /\ Len(renewal_logs) = call.log0

\* C3 witness: add_certificate for a domain whose earlier row had become active
\* (and was never deleted) stands before generation.
C3_Witness ==
    /\ pc = "generate"
    /\ call.op = "add_certificate"
    /\ \E i \in 1..Len(renewal_logs) :
          /\ renewal_logs[i].domain = call.domain
          /\ renewal_logs[i].status = "active"
    /\ \A i \in 1..Len(renewal_logs) : renewal_logs[i].action # "delete"

\* C4: when add_certificate or generate_certificate has returned False, the
\* domain's row (if any) has status failed.
C4_FalseMeansFailed ==
    (ReturnedFromGeneration /\ ret.value = FALSE) =>
        \A r \in RowsOf(certificates, ret.domain) : r.status = "failed"

\* C5: when add_certificate or generate_certificate has returned True, the
\* domain has a row, its status is active, and the call itself logged the
\* status update to active.
C5_TrueMeansActive ==
    (ReturnedFromGeneration /\ ret.value = TRUE) =>
        /\ RowsOf(certificates, ret.domain) # {}
        /\ \A r \in RowsOf(certificates, ret.domain) : r.status = "active"
        /\ \E i \in (ret.log0 + 1)..Len(renewal_logs) :
              renewal_logs[i] = LogRow(ret.domain, "status_update", "active", NULL)

\* C5 witness: add_certificate returned True.
C5_Witness == ret.call = "add_certificate" /\ ret.value = TRUE

\* C5 witness of the renewal: generate_certificate returned True to
\* renew_certificates.
C5_WitnessRenewal == ret.call = "generate_certificate" /\ ret.value = TRUE

\* C6 as claimed: the status of an existing row changes only from pending to
\* active or from pending to failed.
C6_OnlyFromPending ==
    [][\A r \in certificates : \A r2 \in certificates' :
          (r.id = r2.id /\ r.status # r2.status) =>
              (r.status = "pending" /\ r2.status \in {"active", "failed"})]_vars

\* C6 as amended: generation changes the status of an existing row only from
\* pending or active to active or failed; every other change of an existing
\* row's status is a step of the interactive status check.
C6_GenerationOrCheck ==
    [][\A r \in certificates : \A r2 \in certificates' :
          (r.id = r2.id /\ r.status # r2.status) =>
              \/ pc = "check_loop"
              \/ /\ pc \in {"generate", "traefik_wait"}
                 /\ r.status \in {"pending", "active"}
                 /\ r2.status \in {"active", "failed"}]_vars

\* C6 witness: a renewal has taken an active row to failed.
C6_Witness ==
    /\ ret.call = "generate_certificate"
    /\ ret.value = FALSE
    /\ \E r \in certificates : r.domain = ret.domain /\ r.status = "failed"
    /\ \E i \in 1..ret.log0 :
          renewal_logs[i] = LogRow(ret.domain, "status_update", "active", NULL)

\* C7: renewal_logs is append-only: every step leaves the old log as a prefix
\* of the new one.
C7_LogAppendOnly ==
    [][/\ Len(renewal_logs') >= Len(renewal_logs)
       /\ SubSeq(renewal_logs', 1, Len(renewal_logs)) = renewal_logs]_vars

\* C7 witness: a domain was deleted and added again, and the log still holds
\* the row of the deletion.
C7_Witness ==
    \E r \in certificates : \E i \in 1..Len(renewal_logs) :
        renewal_logs[i] = LogRow(r.domain, "delete", "success", "Certificate deleted")

\* C8: every step that gives a domain's row a status it did not have before
\* (a new row included) appends one log row with the domain and that status.
C8_EveryStatusChangeLogged ==
    [][\A r2 \in certificates' :
          (\A r \in certificates : r.domain = r2.domain => r.status # r2.status) =>
              /\ Len(renewal_logs') = Len(renewal_logs) + 1
              /\ renewal_logs'[Len(renewal_logs')].domain = r2.domain
              /\ renewal_logs'[Len(renewal_logs')].status = r2.status]_vars

\* C9: when delete_certificate has returned True, the domain has no row and
\* neither /etc/letsencrypt/live/<domain> nor the self-signed directory of the
\* domain is left.
C9_DeleteRemovesAll ==
    (ret.call = "delete_certificate" /\ ret.value = TRUE) =>
        /\ RowsOf(certificates, ret.domain) = {}
        /\ ret.domain \notin le_live
        /\ ret.domain \notin ss_dir

\* C10, the steps of the wait loop: a failed check (one of at most 30) sleeps 10
\* seconds and changes no table; a successful check sets the status active and
\* returns True with no further check; after 30 failed checks the step sets
\* the status failed with message 'Generation timeout' and returns False.
C10_WaitLoopSteps ==
    [][pc = "traefik_wait" =>
          \/ /\ attempt < 30
             /\ pc' = "traefik_wait"
             /\ attempt' = attempt + 1
             /\ slept' = slept + 10
             /\ UNCHANGED dbVars
          \/ /\ attempt < 30
             /\ pc' # "traefik_wait"
             /\ attempt' = attempt
             /\ ret'.call \in {"add_certificate", "generate_certificate"}
             /\ ret'.value = TRUE
             /\ \A r \in RowsOf(certificates', call.domain) : r.status = "active"
             /\ renewal_logs' =
                    Append(renewal_logs, LogRow(call.domain, "status_update", "active", NULL))
          \/ /\ attempt = 30
             /\ slept = 300
             /\ pc' # "traefik_wait"
             /\ ret'.call \in {"add_certificate", "generate_certificate"}
             /\ ret'.value = FALSE
             /\ \A r \in RowsOf(certificates', call.domain) : r.status = "failed"
             /\ renewal_logs' =
                    Append(renewal_logs,
                           LogRow(call.domain, "status_update", "failed", "Generation timeout"))
      ]_vars

\* C10, termination: a wait loop that has started ends.
C10_WaitLoopEnds == (pc = "traefik_wait") ~> (pc # "traefik_wait")

\* C10: the Traefik wait loop always terminates, by the steps above.
C10_TraefikWait == C10_WaitLoopSteps /\ C10_WaitLoopEnds

\* C10 witness: the wait loop has run out after 30 failed checks.
C10_Witness ==
    /\ ReturnedFromGeneration
    /\ ret.value = FALSE
    /\ attempt = 30
    /\ renewal_logs # <<>>
    /\ renewal_logs[Len(renewal_logs)].message = "Generation timeout"

\* C10 witness of the other exit: a check succeeded after failed ones.
C10_WitnessSuccess ==
    /\ ReturnedFromGeneration
    /\ ret.value = TRUE
    /\ attempt > 0

\* C11: a step of the Traefik wait loop that marks the certificate active (and
\* returns True) happens only when acme.json holds a certificate whose main
\* domain or SAN is the requested domain.
C11_ActiveOnlyFromAcme ==
    [][(pc = "traefik_wait" /\ pc' # "traefik_wait" /\ ret'.value = TRUE) =>
          call.domain \in acme']_vars

\* C12: generation dispatches on the certificate's type: generating a
\* self-signed certificate never enters the Traefik wait and never lets
\* certbot write /etc/letsencrypt/live, and generating a letsencrypt
\* certificate never writes the self-signed directory.
C12_DispatchOnType ==
    [][pc = "generate" =>
          /\ call.cert_type = "self-signed" =>
                (pc' # "traefik_wait" /\ le_live' = le_live)
          /\ call.cert_type = "letsencrypt" =>
                (ss_dir' = ss_dir /\ ss_cert' = ss_cert)]_vars

\* C13: add_certificate, generate_certificate and delete_certificate never
\* raise: no call of one of them ends with an exception.
C13_NeverRaise ==
    ret.call = "raised" =>
        ret.from \notin {"add_certificate", "generate_certificate", "delete_certificate"}

C14_WitnessNotDue ==
    /\ ret.call = "renew_certificates"
    /\ ret.value = {}
    /\ \E r \in certificates : r.status = "active"

\* C15: _run_setup_tasks invokes the eight tasks once each in the order System
\* Updates, User Management, SSH Configuration, Security Setup, Docker
\* Installation, Development Tools, Web Infrastructure, Final Configuration,
\* whatever earlier tasks returned or raised: the tasks invoked so far are
\* the first ones of that list, setup_log holds one entry per invoked task
\* in the same order, and when the loop is over all eight have been invoked.
C15_EightTasksInOrder ==
    LET order == <<"System Updates", "User Management", "SSH Configuration",
                   "Security Setup", "Docker Installation", "Development Tools",
                   "Web Infrastructure", "Final Configuration">>
    IN  /\ Len(tasks_run) <= 8
        /\ \A i \in 1..Len(tasks_run) : tasks_run[i] = order[i]
        /\ Len(setup_log) = Len(tasks_run)
        /\ \A i \in 1..Len(setup_log) : setup_log[i].task = order[i]
        /\ (setup_pc = "summary" \/ (setup_pc = "exited" /\ proceed = "yes")) =>
              Len(tasks_run) = 8

\* C15 witness: the loop is over, its first task had raised and a later one
\* had returned False.
C15_Witness ==
    /\ setup_pc = "summary"
    /\ setup_log[1].mark = "error"
    /\ setup_log[3].mark = "skipped"
    /\ setup_log[8].mark = "done"

\* C20: no setup task runs unless the process is root and the user confirmed
\* 'Proceed with setup?'; started by another user, ServerSetup.run exits with
\* code 1 before any configuration is collected; when the confirmation is
\* declined, collect exits with code 0 and no task has run or runs.
C20_RootAndConfirmed ==
    /\ tasks_run # <<>> => (euid = 0 /\ proceed = "yes")
    /\ setup_pc = "tasks" => (euid = 0 /\ proceed = "yes")
    /\ (euid # 0 /\ setup_pc # "start") =>
          /\ setup_pc = "exited"
          /\ exit_code = <<1>>
          /\ answers = [collected |-> FALSE]
          /\ proceed = "unasked"
          /\ tasks_run = <<>>
    /\ proceed = "no" =>
          /\ setup_pc = "exited"
          /\ exit_code = <<0>>
          /\ tasks_run = <<>>
          /\ setup_log = <<>>

\* C20 witness: the script was started by an ordinary user and has exited.
C20_Witness == euid # 0 /\ setup_pc = "exited"

\* C20 witness of the declined confirmation.
C20_WitnessDeclined == euid = 0 /\ proceed = "no" /\ setup_pc = "exited"

\* C20 witness of a setup that ran: root confirmed and the tasks were invoked.
C20_WitnessRan == tasks_run # <<>> /\ setup_pc = "exited"

\* the rendering the claim describes: from the left, every placeholder of a
\* key of the map is replaced by the key's value and every other character
\* is copied
RECURSIVE Rendered(_, _)
Rendered(s, m) ==
    IF s = <<>> THEN <<>>
    ELSE IF \E i \in 1..Len(m) :
               /\ Len(s) >= Len(m[i].var) + 4
               /\ SubSeq(s, 1, Len(m[i].var) + 4) = <<"{", "{">> \o m[i].var \o <<"}", "}">>
         THEN LET i == CHOOSE j \in 1..Len(m) :
                          /\ Len(s) >= Len(m[j].var) + 4
                          /\ SubSeq(s, 1, Len(m[j].var) + 4) =
                                 <<"{", "{">> \o m[j].var \o <<"}", "}">>
              IN  m[i].value \o Rendered(SubSeq(s, Len(m[i].var) + 5, Len(s)), m)
         ELSE <<s[1]>> \o Rendered(Tail(s), m)

\* the written text holds no placeholder of a key of the map
NoPlaceholderLeft ==
    \A i \in 1..Len(variables) :
        ~\E j \in 1..Len(written) :
            /\ j + Len(variables[i].var) + 3 <= Len(written)
            /\ SubSeq(written, j, j + Len(variables[i].var) + 3) =
                   <<"{", "{">> \o variables[i].var \o <<"}", "}">>

\* every brace of the text belongs to a token {{NAME}} whose NAME has no brace
RECURSIVE AfterName(_)
AfterName(s) ==
    IF s = <<>> \/ s[1] \in {"{", "}"} THEN s ELSE AfterName(Tail(s))

RECURSIVE BracesOnlyInTokens(_)
BracesOnlyInTokens(s) ==
    IF s = <<>> THEN TRUE
    ELSE IF s[1] \notin {"{", "}"} THEN BracesOnlyInTokens(Tail(s))
    ELSE /\ Len(s) >= 4
         /\ s[1] = "{"
         /\ s[2] = "{"
         /\ LET r == AfterName(SubSeq(s, 3, Len(s)))
            IN  /\ Len(r) >= 2
                /\ r[1] = "}"
                /\ r[2] = "}"
                /\ BracesOnlyInTokens(SubSeq(r, 3, Len(r)))

NoBraceInValues ==
    \A i \in 1..Len(variables) : \A j \in 1..Len(variables[i].value) :
        variables[i].value[j] \notin {"{", "}"}

C16_WitnessStrayBraces ==
    /\ tmpl_pc = "written"
    /\ tmpl_kind = "wordpress"
    /\ NoBraceInValues
    /\ ~NoPlaceholderLeft

\* the tool of a tech stack entry: its first word in lower case
ToolOfEntry(e) ==
    CASE e = <<"PHP", " ", "8.1">> -> <<"php">>
      [] e = <<"php">> -> <<"php">>
      [] e = <<"Node", " ", "18">> -> <<"node">>
      [] e = <<"Redis">> -> <<"redis">>

\* the specs of the option that give a version for the tool: tool:version
\* with the tool's name, blanks aside
GivenFor(t) ==
    {i \in 1..Len(versions) :
        /\ versions[i].colon
        /\ SelectSeq(versions[i].tool, LAMBDA w : w # " ") = t}

\* C17: when _resolve_versions has returned, the resolved map has exactly the
\* tools of the tech stack entries as keys, and the version of each tool is
\* the version the user gave for it (the last one given), otherwise the
\* version manager's default of the tool, otherwise 'latest' for a tool the
\* version manager does not know.
C17_VersionResolution ==
    ver_pc = "resolved" =>
        /\ {x.key : x \in resolved} = {ToolOfEntry(tech_stack[i]) : i \in 1..Len(tech_stack)}
        /\ \A x, y \in resolved : x.key = y.key => x = y
        /\ \A x \in resolved :
              IF GivenFor(x.key) # {}
              THEN LET last == CHOOSE i \in GivenFor(x.key) : \A j \in GivenFor(x.key) : j <= i
                   IN  x.value = SelectSeq(versions[last].version, LAMBDA w : w # " ")
              ELSE IF \E d \in tools : d.key = x.key
                   THEN \E d \in tools : d.key = x.key /\ x.value = d.value
                   ELSE x.value = <<"latest">>

\* C17 witness: a stack with a tool the user gave a version for, resolved to
\* that version, and a tool resolved to the version manager's default.
C17_Witness ==
    /\ ver_pc = "resolved"
    /\ [key |-> <<"php">>, value |-> <<"7.4">>] \in resolved
    /\ [key |-> <<"node">>, value |-> <<"18">>] \in resolved

\* C17 witness of the unknown tool.
C17_WitnessLatest ==
    /\ ver_pc = "resolved"
    /\ [key |-> <<"redis">>, value |-> <<"latest">>] \in resolved

\* C19: delete_certificate commits the deletion of the row and the
\* 'delete'/'success' log row before it touches the certificate files: when
\* it is about to remove the files the row is gone and the log row is there,
\* and when it has returned False because the removal failed, the row is gone
\* and the log row is there although the files are left.
C19_DeleteCommitsBeforeFiles ==
    /\ pc = "delete_files" =>
          /\ RowsOf(certificates, call.domain) = {}
          /\ Len(renewal_logs) = call.log0 + 1
          /\ renewal_logs[Len(renewal_logs)] =
                 LogRow(call.domain, "delete", "success", "Certificate deleted")
    /\ (ret.call = "delete_certificate" /\ ret.value = FALSE) =>
          /\ RowsOf(certificates, ret.domain) = {}
          /\ Len(renewal_logs) = ret.log0 + 1
          /\ renewal_logs[Len(renewal_logs)] =
                 LogRow(ret.domain, "delete", "success", "Certificate deleted")
          /\ (ret.domain \in le_live \/ ret.domain \in ss_dir)

\* C19 witness: delete_certificate has returned False.
C19_Witness == ret.call = "delete_certificate" /\ ret.value = FALSE

\* C18, the table: at most one row per domain, in the database file and in
\* an open transaction.
C18_DomainUnique ==
    /\ \A r1, r2 \in certificates : r1.domain = r2.domain => r1 = r2
    /\ wlock # 0 => \A r1, r2 \in work.certificates : r1.domain = r2.domain => r1 = r2

\* C18, the steps: whatever the two managers do, the log in the database
\* file only grows at its end; a step that changes the status of a row in
\* the file appends, in the same step, one status_update log row with the
\* row's domain and new status; and a step that appends a status_update log
\* row appends that row only, leaves every row of the domain with the logged
\* status and changes nothing else in the table.
C18_Steps ==
    [][/\ Len(renewal_logs') >= Len(renewal_logs)
       /\ SubSeq(renewal_logs', 1, Len(renewal_logs)) = renewal_logs
       /\ \A r \in certificates : \A r2 \in certificates' :
             (r.id = r2.id /\ r.status # r2.status) =>
                 /\ Len(renewal_logs') = Len(renewal_logs) + 1
                 /\ renewal_logs'[Len(renewal_logs')].action = "status_update"
                 /\ renewal_logs'[Len(renewal_logs')].domain = r2.domain
                 /\ renewal_logs'[Len(renewal_logs')].status = r2.status
       /\ (/\ Len(renewal_logs') > Len(renewal_logs)
           /\ renewal_logs'[Len(renewal_logs')].action = "status_update") =>
                 /\ Len(renewal_logs') = Len(renewal_logs) + 1
                 /\ {r.id : r \in certificates'} = {r.id : r \in certificates}
                 /\ \A r2 \in certificates' :
                       IF r2.domain = renewal_logs'[Len(renewal_logs')].domain
                       THEN r2.status = renewal_logs'[Len(renewal_logs')].status
                       ELSE r2 \in certificates
      ]_vars

\* C18: with two manager processes on the same SQLite file, under any
\* interleaving of the statements of their add_certificate, status-update
\* and delete_certificate steps, domain uniqueness and the append-only log
\* are preserved, and a status update and its status_update log row reach
\* the database file together or not at all.
C18_TwoManagers == []C18_DomainUnique /\ C18_Steps

\* C18 witness: one manager has committed a status update and the other
\* manager's transaction, begun after it, is open.
C18_Witness ==
    /\ wlock # 0
    /\ \E r \in certificates : r.status = "active"
    /\ renewal_logs # <<>>
    /\ renewal_logs[Len(renewal_logs)].action = "status_update"
    /\ conns[wlock].op = "update_certificate_status"
    /\ conns[wlock].done = 1
    /\ conns[3 - wlock] # [op |-> "none"]

\* an event on_modified leaves without a reload, read off the event, the
\* configuration and the times
Ignorable(h, cfg, last) ==
    \/ h.event.is_directory
    \/ ~_should_reload(cfg, h.event.src_path)
    \/ h.now - last < 2

\* C21, the steps: an event handled less than 2 seconds after the last
\* triggered reload runs no reload, and an ignored event (a directory, a
\* path with a skip pattern, an extension outside the reload list, a
\* debounced event) changes neither last_reload nor the reloads run.
C21_Steps ==
    [][(handled' # [event |-> "none"] /\ handled' # handled) =>
          /\ (reloads # <<>> /\ handled'.now - reloads[Len(reloads)] < 2) => reloads' = reloads
          /\ Ignorable(handled', hot_config, last_reload) =>
                (last_reload' = last_reload /\ reloads' = reloads)
      ]_vars

\* C21, the states: any two reloads were triggered 2 seconds apart or more.
C21_OnePerWindow ==
    \A i, j \in 1..Len(reloads) : i < j => reloads[j] - reloads[i] >= 2

\* C21: HotReloadHandler debounces reloads: an event handled less than 2
\* seconds after the last triggered reload never triggers one, ignored
\* events never change last_reload, and at most one reload is triggered per
\* 2-second window.
C21_Debounce == []C21_OnePerWindow /\ C21_Steps

\* C21 witness: two reloads were run and the last event, a reload file
\* modified less than 2 seconds after the second, was debounced.
C21_Witness ==
    /\ Len(reloads) = 2
    /\ handled # [event |-> "none"]
    /\ handled.outcome = "debounced"
    /\ ~handled.event.is_directory
    /\ handled.event.src_path = <<"src", "/", "app", ".py">>
    /\ handled.now > reloads[2]

\* C22: run_build executes the build steps of the target in their listed
\* order: what it has run is a prefix of the target's list, only the last
\* step run can have failed, it returns False when a step's command fails
\* and runs nothing after that, and it returns True only when every step of
\* the target has run and succeeded.
C22_BuildInOrder ==
    LET listed == IF run_config.target \in {x.key : x \in run_config.build}
                  THEN (CHOOSE x \in run_config.build : x.key = run_config.target).value
                  ELSE <<>>
    IN  /\ Len(executed) <= Len(listed)
        /\ \A i \in 1..Len(executed) : executed[i].cmd = <<"sh", "-c", listed[i]>>
        /\ \A i \in 1..Len(executed) : executed[i].outcome # "ok" => i = Len(executed)
        /\ (\E i \in 1..Len(executed) : executed[i].outcome = "CalledProcessError")
              => run_ret = "False"
        /\ run_ret = "False" => executed[Len(executed)].outcome = "CalledProcessError"
        /\ run_ret = "True" =>
              /\ Len(executed) = Len(listed)
              /\ \A i \in 1..Len(executed) : executed[i].outcome = "ok"

\* C22 witness: the second of three steps failed and run_build returned
\* False with the third step not run.
C22_Witness ==
    /\ run_prog = "run_build"
    /\ run_ret = "False"
    /\ Len(executed) = 2
    /\ Len(build_steps(run_config)) = 3
    /\ executed[1].outcome = "ok"

\* steps of ssh.run, as they appear in what was executed
TouchesSshd(e) ==
    \/ e.cmd[1] = "append" /\ e.cmd[2] = "/etc/ssh/sshd_config"
    \/ e.cmd = <<"systemctl", "restart", "sshd">>
WritesAuthorizedKeys(e) == e.cmd[1] = "write" /\ e.cmd[2] = "authorized_keys"
GeneratesKey(e) == e.cmd[1] = "ssh-keygen" \/ e.cmd = <<"read", "id_rsa.pub">>

\* C24: ssh.run appends to sshd_config (root login and password
\* authentication off, AllowUsers <username>) and restarts sshd only after
\* authorized_keys has been written, successfully, with the user's public
\* key; when the key generation or the writing of authorized_keys fails,
\* sshd_config is not modified, sshd is not restarted and the task returns
\* False.
C24_SshdAfterKey ==
    run_prog = "ssh.run" =>
        /\ \A i \in 1..Len(executed) : TouchesSshd(executed[i]) =>
              \E j \in 1..(i - 1) :
                  /\ WritesAuthorizedKeys(executed[j])
                  /\ executed[j].outcome = "ok"
                  /\ executed[j].cmd[3] =
                        (IF run_config.ssh_key_type = "generate"
                         THEN "contents of id_rsa.pub"
                         ELSE run_config.ssh_public_key)
        /\ \A i \in 1..Len(executed) :
              (/\ executed[i].cmd[1] = "append"
               /\ executed[i].cmd[2] = "/etc/ssh/sshd_config") =>
                  /\ \E k \in 1..Len(executed[i].cmd) : executed[i].cmd[k] = "PasswordAuthentication no"
                  /\ \E k \in 1..Len(executed[i].cmd) : executed[i].cmd[k] = "PermitRootLogin no"
                  /\ \E k \in 1..(Len(executed[i].cmd) - 1) :
                        /\ executed[i].cmd[k] = "AllowUsers"
                        /\ executed[i].cmd[k + 1] = run_config.username
        /\ (\E i \in 1..Len(executed) :
               /\ GeneratesKey(executed[i]) \/ WritesAuthorizedKeys(executed[i])
               /\ executed[i].outcome # "ok") =>
              /\ \A j \in 1..Len(executed) : ~TouchesSshd(executed[j])
              /\ run_ret = "False"

\* C24 witness: the key was generated, the writing of authorized_keys
\* failed and ssh.run returned False.
C24_Witness ==
    /\ run_prog = "ssh.run"
    /\ run_ret = "False"
    /\ Len(executed) = 4
    /\ GeneratesKey(executed[2])
    /\ WritesAuthorizedKeys(executed[4])
    /\ executed[4].outcome = "OSError"

\* C24 witness: sshd was restarted, after the pasted key was written.
C24_WitnessRestarted ==
    /\ run_prog = "ssh.run"
    /\ run_ret = "True"
    /\ run_config.ssh_key_type = "paste"
    /\ executed[Len(executed)].cmd = <<"systemctl", "restart", "sshd">>

\* steps of security.run, as they appear in what was executed
IsUfw(e) == e.cmd[1] = "ufw"
IsUfwEnable(e) == e.cmd = <<"ufw", "--force", "enable">>

\* C25: security.run enables the firewall only after the allow rules for
\* the configured SSH port and for 80, 443, 8080, 81 and 9000 have all been
\* added successfully; when a ufw command before it fails 'ufw enable' is
\* not executed, when any ufw command fails the firewall is not enabled and
\* security.run returns False; with setup_firewall false no ufw command is
\* executed at all.
C25_FirewallAfterRules ==
    run_prog = "security.run" =>
        /\ \A i \in 1..Len(executed) : IsUfwEnable(executed[i]) =>
              \A port \in {ToString(run_config.ssh_port), "80", "443", "8080", "81", "9000"} :
                  \E j \in 1..(i - 1) :
                      /\ executed[j].cmd = <<"ufw", "allow", port>>
                      /\ executed[j].outcome = "ok"
        /\ \A i \in 1..Len(executed) :
              (IsUfw(executed[i]) /\ executed[i].outcome # "ok") =>
                  /\ \A j \in 1..Len(executed) :
                        IsUfwEnable(executed[j]) => (j = i /\ executed[j].outcome # "ok")
                  /\ run_ret = "False"
        /\ (run_config.has_setup_firewall /\ ~run_config.setup_firewall) =>
              \A i \in 1..Len(executed) : ~IsUfw(executed[i])

\* C25 witness: the allow rule of port 443 failed and security.run
\* returned False with the firewall not enabled.
C25_Witness ==
    /\ run_prog = "security.run"
    /\ run_ret = "False"
    /\ executed # <<>>
    /\ executed[Len(executed)].cmd = <<"ufw", "allow", "443">>
    /\ executed[Len(executed)].outcome = "CalledProcessError"

\* C25 witness: the firewall was enabled and security.run returned True.
C25_WitnessEnabled ==
    /\ run_prog = "security.run"
    /\ run_ret = "True"
    /\ IsUfwEnable(executed[Len(executed)])

\* C25 witness: security.run returned True with setup_firewall false.
C25_WitnessNoFirewall ==
    /\ run_prog = "security.run"
    /\ run_ret = "True"
    /\ run_config.has_setup_firewall
    /\ ~run_config.setup_firewall

\* C23, the states: read back, the YAML file gives the in-memory config.
C23_FileEqualsMemory ==
    cfg_prog # "off" =>
        {[key |-> x.key,
          value |-> [list |-> x.value.list,
                     items |-> [i \in 1..Len(x.value.items) |-> ParseScalar(x.value.items[i])]]] :
         x \in yaml_file} = mem_config

\* C23, the steps: set_default_version for tools the config does not hold
\* changes neither the in-memory config nor versions.yml.
C23_UnknownToolFrame ==
    [][(/\ cfg_last'.op = "set_default_version"
        /\ \A i \in 1..Len(cfg_last'.items) :
              \A x \in mem_config : ~(x.key[1] = "tools" /\ x.key[2] = cfg_last'.items[i].tool))
          => (mem_config' = mem_config /\ yaml_file' = yaml_file)
      ]_vars

\* C23: persisted configuration tracks the in-memory configuration: after
\* set_default_version for a known tool and after every action of the SSL
\* configuration menu the YAML file on disk equals the in-memory config,
\* and set_default_version for a tool that is not in the config changes
\* neither of the two.
C23_PersistedTracksMemory == []C23_FileEqualsMemory /\ C23_UnknownToolFrame

\* C23 witness: the default of php was set to a version other than the
\* default configuration's, and versions.yml holds it.
C23_Witness ==
    /\ cfg_prog = "VersionManager"
    /\ cfg_last.op = "set_default_version"
    /\ \E x \in mem_config :
          /\ x.key = <<"tools", "php", "default">>
          /\ x.value.items[1].s = "8.0"
    /\ \E x \in yaml_file :
          /\ x.key = <<"tools", "php", "default">>
          /\ x.value.items[1] = [text |-> "8.0", quoted |-> TRUE]

\* C23 witness: the SSL configuration menu set the container names.
C23_WitnessSsl ==
    /\ cfg_prog = "SSLManager"
    /\ cfg_last.op = "_configuration_menu"
    /\ cfg_last.choice = 4
    /\ \E x \in yaml_file :
          /\ x.key = <<"docker", "traefik_container">>
          /\ x.value.items[1] = [text |-> "123", quoted |-> TRUE]

\* C23 witness: set_default_version was called for wordpress, which the
\* config does not hold.
C23_WitnessUnknown ==
    /\ cfg_prog = "VersionManager"
    /\ cfg_last.op = "set_default_version"
    /\ cfg_last.items = <<[tool |-> "wordpress", version |-> "6.8.1"]>>
    /\ \A x \in mem_config : x.key[2] # "wordpress"

\* C26: for every tool of the version configuration, the default version
\* is a member of that tool's list of available versions, in every state
\* reachable by the version-management menu actions (set default version,
\* check latest versions, update defaults to latest).
C26_DefaultIsAvailable ==
    cfg_prog = "VersionManager" =>
        \A x \in mem_config :
            (x.key[1] = "tools" /\ x.key[3] = "default") =>
                \E y \in mem_config :
                    /\ y.key = <<"tools", x.key[2], "available">>
                    /\ \E i \in 1..Len(y.value.items) : y.value.items[i] = x.value.items[1]

\* C27: in every reachable state, for each certificate row whose status is
\* not pending, the most recently appended renewal_logs row with action
\* status_update for that domain records the same status as the row.
C27_LastStatusUpdateMatches ==
    \A r \in certificates :
        r.status # "pending" =>
            \E i \in 1..Len(renewal_logs) :
                /\ renewal_logs[i].action = "status_update"
                /\ renewal_logs[i].domain = r.domain
                /\ renewal_logs[i].status = r.status
                /\ \A j \in (i + 1)..Len(renewal_logs) :
                      ~(/\ renewal_logs[j].action = "status_update"
                        /\ renewal_logs[j].domain = r.domain)

\* C27 witness: a row is failed after it was active, and the log holds both
\* status updates of its domain.
C27_Witness ==
    /\ Len(renewal_logs) >= 2
    /\ \E r \in certificates :
          /\ r.status = "failed"
          /\ \E i, j \in 1..Len(renewal_logs) :
                /\ i < j
                /\ renewal_logs[i].action = "status_update"
                /\ renewal_logs[i].domain = r.domain
                /\ renewal_logs[i].status = "active"
                /\ renewal_logs[j].action = "status_update"
                /\ renewal_logs[j].domain = r.domain
                /\ renewal_logs[j].status = "failed"

=============================================================================
